---- MODULE Spec2Model ----
(***************************************************************************)
(* Model of the disk cache store of codex-rs/core/src/cache/store.rs:      *)
(* one process that constructs a DiskCacheStore over a cache directory,    *)
(* calls get / put / remove / clear on it, may be killed at any point and  *)
(* is then started again over the directory it left behind.                *)
(*                                                                         *)
(* Spec takes each call of get / put / remove / clear as one step (the     *)
(* store's mutex makes it one), SpecSteps follows persist_index step by    *)
(* step, SpecExt adds the deletion of payload files from outside.          *)
(*                                                                         *)
(* Time is the value of now_epoch_secs(): whole epoch seconds, read from a *)
(* clock that never runs backwards.  File-system calls whose error the     *)
(* code propagates may fail; std::fs::remove_file, whose error the code    *)
(* discards, is taken to succeed.                                          *)
(***************************************************************************)
EXTENDS Integers, Sequences, FiniteSets, TLC

\* ------------------------------------------------------------ bounds
MaxTime == 2
MaxBudget == 3
MaxTtlSecs == 1
MaxRuns == 2
MaxFaults == 1
MaxCalls == 3
MaxTomlSecs == 2
MaxStamp == 11
MaxGrepTtlSecs == 12
MaxBuilds == 2
MaxLines == 2
MaxFileLines == 5
MaxChunkLines == 3
MaxVectorLen == 2
MaxBlobLen == 5
MaxStdout == 4
MaxLimit == 2
MaxSnippetLines == 3
MaxChars == 5
MaxRecords == 2

Keys == {"a", "b", "c"}
Values == {<<>>, <<1>>, <<1, 2>>}
\* std::time::Duration: whole seconds and a sub-second part; the durations
\* of whole seconds, and half a second
Durations ==
    {[secs |-> n, nanos |-> 0] : n \in 0..MaxTtlSecs}
    \cup {[secs |-> 0, nanos |-> 500000000]}
Budgets == 0..MaxBudget

\* What the store's callers do in one behaviour: the keys, values and TTLs
\* they pass, the byte budgets the store is constructed with, how often it
\* is constructed and how many file-system calls fail.
Workloads ==
    {[keys |-> {"a"}, values |-> Values, ttls |-> Durations,
      budgets |-> Budgets, runs |-> MaxRuns, faults |-> 0],
     [keys |-> {"a"}, values |-> Values, ttls |-> Durations,
      budgets |-> Budgets, runs |-> 1, faults |-> MaxFaults],
     [keys |-> {"a", "b"}, values |-> Values, ttls |-> Durations,
      budgets |-> Budgets, runs |-> 1, faults |-> 0],
     [keys |-> Keys, values |-> {<<1>>, <<1, 2>>},
      ttls |-> {[secs |-> MaxTtlSecs, nanos |-> 0]},
      budgets |-> {MaxBudget}, runs |-> 1, faults |-> 0]}

VARIABLES
    pc,          \* "down": no store object; "idle": constructed, lock free;
                 \* "write_tmp" / "rename": inside persist_index (SpecSteps)
    max_bytes,   \* DiskCacheStore.max_bytes
    index,       \* DiskCacheStore.inner: [entries, total_bytes]
    files,       \* payload files under entries/, by key
    index_file,  \* the file at index_path (index.json)
    tmp_file,    \* the file at index_path.with_extension("json.tmp")
    now,         \* now_epoch_secs()
    runs,        \* how many times the store has been constructed
    faults,      \* how many file-system calls have failed
    load,        \* the workload of this behaviour
    last,        \* the operation in progress or last returned
    lock,        \* DiskCacheStore.inner: the thread that holds it, or "free"
    threads,     \* each thread's place in its call of the store
    held,        \* what the call that holds the lock returns and leaves
                 \* when it runs alone
    enabled,     \* CacheManager.config.enabled
    telemetry,   \* CacheManager.telemetry: the counters
    mgr,         \* the last call of the manager and what its caller got
    conf,        \* a cache section of config.toml, the CacheConfig made of
                 \* it, and the last ttl_for asked of it
    keyed,       \* two inputs of build_tool_cache_key and the keys built
    grepped,     \* two inputs of build_grep_cache_key and the keys built
    calc,        \* the input of chunk_lines or of the embedding codec, and
                 \* what was computed of it
    tree,        \* the files under workspace_root, by relative path
    db,          \* index.sqlite in the index directory
    build,       \* SemanticIndex::build: where it is, and how it ended
    embedder,    \* the embedding provider as its client sees it
    found        \* the last SemanticIndex::search and what it returned

threadVars == <<lock, threads, held>>

mgrVars == <<enabled, telemetry, mgr>>

pureVars == <<conf, keyed, grepped, calc>>

semVars == <<tree, db, build, embedder, found>>

vars == <<pc, max_bytes, index, files, index_file, tmp_file, now, runs, faults,
          load, last, threadVars, mgrVars, pureVars, semVars>>

\* ------------------------------------------------------------ data
NoEntry ==
    [present |-> FALSE, size_bytes |-> 0, inserted_epoch |-> 0,
     last_access_epoch |-> 0, ttl_secs |-> 0]

CacheIndexEntry(size, inserted, accessed, ttl) ==
    [present |-> TRUE, size_bytes |-> size, inserted_epoch |-> inserted,
     last_access_epoch |-> accessed, ttl_secs |-> ttl]

CacheIndexDefault ==
    [entries |-> [k \in Keys |-> NoEntry], total_bytes |-> 0]

NoFile == [exists |-> FALSE, bytes |-> <<>>]
File(v) == [exists |-> TRUE, bytes |-> v]

\* contents of index.json / index.json.tmp
Absent == [kind |-> "absent", index |-> CacheIndexDefault]
Partial == [kind |-> "partial", index |-> CacheIndexDefault]

SatSub(a, b) == IF a >= b THEN a - b ELSE 0

as_secs(d) == d.secs

KeysOf(idx) == {k \in Keys : idx.entries[k].present}

RECURSIVE SumSizes(_, _)
SumSizes(ents, ks) ==
    IF ks = {} THEN 0
    ELSE LET k == CHOOSE x \in ks : TRUE
         IN ents[k].size_bytes + SumSizes(ents, ks \ {k})

\* ------------------------------------------------------------ CacheIndexEntry
is_expired_at_nonzero(e, t) == SatSub(t, e.inserted_epoch) > e.ttl_secs

is_expired_at(e, t) ==
    IF e.ttl_secs = 0 THEN TRUE
    ELSE SatSub(t, e.inserted_epoch) > e.ttl_secs

\* ------------------------------------------------------------ CacheIndex
\* Each operator returns the index and the payload files it leaves.
remove_entry(idx, fs, key) ==
    IF idx.entries[key].present
    THEN [index |-> [entries |-> [idx.entries EXCEPT ![key] = NoEntry],
                     total_bytes |->
                         SatSub(idx.total_bytes, idx.entries[key].size_bytes)],
          files |-> [fs EXCEPT ![key] = NoFile]]
    ELSE [index |-> idx, files |-> fs]

clear_keeping_total(idx, fs) ==
    [index |-> [CacheIndexDefault EXCEPT !.total_bytes = idx.total_bytes],
     files |-> [k \in Keys |-> IF idx.entries[k].present THEN NoFile ELSE fs[k]]]

clear(idx, fs) ==
    [index |-> CacheIndexDefault,
     files |-> [k \in Keys |-> IF idx.entries[k].present THEN NoFile ELSE fs[k]]]

newest_entry(idx) ==
    {k \in KeysOf(idx) :
        \A j \in KeysOf(idx) :
            idx.entries[k].last_access_epoch >= idx.entries[j].last_access_epoch}

\* min_by_key over the map's iteration order: any entry of least
\* last_access_epoch may be the one returned
oldest_entry(idx) ==
    {k \in KeysOf(idx) :
        \A j \in KeysOf(idx) :
            idx.entries[k].last_access_epoch <= idx.entries[j].last_access_epoch}

prune_expired(idx, fs, t) ==
    LET expired == {k \in KeysOf(idx) : is_expired_at(idx.entries[k], t)}
    IN [index |->
            [entries |-> [k \in Keys |->
                            IF k \in expired THEN NoEntry ELSE idx.entries[k]],
             total_bytes |->
                SatSub(idx.total_bytes, SumSizes(idx.entries, expired))],
        files |-> [k \in Keys |-> IF k \in expired THEN NoFile ELSE fs[k]]]

recalculate_bytes_from_index(idx, fs) ==
    LET kept == {k \in KeysOf(idx) : fs[k].exists}
    IN [entries |-> [k \in Keys |->
                        IF k \in kept THEN idx.entries[k] ELSE NoEntry],
        total_bytes |-> SumSizes(idx.entries, kept)]

recalculate_bytes(idx, fs) ==
    LET kept == {k \in KeysOf(idx) : fs[k].exists}
        lens == [k \in Keys |-> [size_bytes |-> Len(fs[k].bytes)]]
    IN [entries |-> [k \in Keys |->
                        IF k \in kept THEN idx.entries[k] ELSE NoEntry],
        total_bytes |-> SumSizes(lens, kept)]

\* ------------------------------------------------------------ DiskCacheStore
Serialize(idx) == [kind |-> "json", index |-> idx]

\* load_index, with new()'s unwrap_or_else: an absent file is the empty index,
\* and so is a file that does not parse (or cannot be read)
load_index(file, readable) ==
    IF readable /\ file.kind = "json" THEN file.index ELSE CacheIndexDefault

stats == [entries |-> Cardinality(KeysOf(index)),
          total_bytes |-> index.total_bytes]

\* persist_index: std::fs::write(&tmp_path, bytes)?, which may fail and
\* then leaves the temporary file as it was or torn
write_tmp(idx, tmp) ==
    {[tmp_file |-> Serialize(idx), ok |-> TRUE]}
    \cup {[tmp_file |-> t, ok |-> FALSE] : t \in {tmp, Partial}}

rename_by_copy(tmp, canonical) ==
    {[index_file |-> tmp, tmp_file |-> Absent, ok |-> TRUE],
     [index_file |-> canonical, tmp_file |-> tmp, ok |-> FALSE],
     [index_file |-> Partial, tmp_file |-> tmp, ok |-> FALSE]}

\* persist_index: std::fs::rename(tmp_path, &self.index_path)?
rename(tmp, canonical) ==
    {[index_file |-> tmp, tmp_file |-> Absent, ok |-> TRUE],
     [index_file |-> canonical, tmp_file |-> tmp, ok |-> FALSE]}

\* persist_index as a whole: every way it can end
persist_index(idx) ==
    UNION {IF w.ok
           THEN rename(w.tmp_file, index_file)
           ELSE {[index_file |-> index_file, tmp_file |-> w.tmp_file,
                  ok |-> FALSE]} : w \in write_tmp(idx, tmp_file)}

NotPersisted == {[index_file |-> index_file, tmp_file |-> tmp_file, ok |-> TRUE]}

ZeroTtl == [secs |-> 0, nanos |-> 0]

\* two successive reads of the clock
ClockReads == {t \in now..(now + 1) : t <= MaxTime}

\* What a call does to the index and the payload files before it persists
\* the index: out names the return statement it takes, val / ttl are the
\* entry it was given or returns, evicted is put's counter, victims the keys
\* whose entries it removed (a replaced entry apart), persist whether it goes
\* on to persist_index, failed whether a file-system call of its own failed.
Outcome(idx, fs, t, out, val, ttl, evicted, victims, persist, failed) ==
    [index |-> idx, files |-> fs, now |-> t, out |-> out, val |-> val,
     ttl |-> ttl, evicted |-> evicted, victims |-> victims,
     persist |-> persist, failed |-> failed]

\* the eviction loop of put: every run of it, one per way oldest_entry can
\* break ties; evicted is the loop's counter
RECURSIVE evict_loop(_, _, _, _, _)
evict_loop(idx, fs, size_bytes, evicted, victims) ==
    IF idx.total_bytes + size_bytes > max_bytes /\ oldest_entry(idx) # {}
    THEN UNION {LET r == remove_entry(idx, fs, k)
                IN evict_loop(r.index, r.files, size_bytes, evicted + 1,
                              victims \cup {k}) : k \in oldest_entry(idx)}
    ELSE {[index |-> idx, files |-> fs, evicted |-> evicted,
           victims |-> victims]}

put_refused_at_budget(size_bytes) == max_bytes = 0 \/ size_bytes >= max_bytes

put_refused_when_disabled(size_bytes) == max_bytes = 0

put_refused(size_bytes) == max_bytes = 0 \/ size_bytes > max_bytes

put_insert(idx, key, size_bytes, ttl, inserted, accessed) ==
    [entries |-> [idx.entries EXCEPT ![key] =
                    CacheIndexEntry(size_bytes, inserted, accessed, as_secs(ttl))],
     total_bytes |-> idx.total_bytes + size_bytes]

\* what a failed std::fs::write can leave at a path that held `old`
TornWrites(old, v) ==
    {old} \cup {File(SubSeq(v, 1, n)) : n \in 0..(Len(v) - 1)}

\* CacheStore::put
put(key, value, ttl) ==
    LET size_bytes == Len(value)
        removed == remove_entry(index, files, key)
    IN IF put_refused(size_bytes)
       THEN {Outcome(index, files, now,
                     IF max_bytes = 0 THEN "disabled" ELSE "too_large",
                     value, ttl, 0, {}, FALSE, FALSE)}
       ELSE UNION {
              {Outcome(put_insert(run.index, key, size_bytes, ttl, now, t2),
                       [run.files EXCEPT ![key] = File(value)], t2, "stored",
                       value, ttl, run.evicted, run.victims, TRUE, FALSE) :
                  t2 \in ClockReads}
              \cup
              {Outcome(run.index, [run.files EXCEPT ![key] = torn], now,
                       "failed", value, ttl, run.evicted, run.victims,
                       FALSE, TRUE) :
                  torn \in TornWrites(run.files[key], value)} :
              run \in evict_loop(removed.index, removed.files, size_bytes,
                                 0, {})}

get_touch_renewing(idx, key, t) ==
    [idx EXCEPT !.entries[key].last_access_epoch = t,
                !.entries[key].inserted_epoch = t]

get_touch(idx, key, t) == [idx EXCEPT !.entries[key].last_access_epoch = t]

\* CacheStore::get
get(key) ==
    LET entry == index.entries[key]
        removed == remove_entry(index, files, key)
    IN IF ~entry.present
       THEN {Outcome(index, files, now, "absent", <<>>, ZeroTtl, 0, {},
                     FALSE, FALSE)}
       ELSE IF is_expired_at(entry, now)
       THEN {Outcome(removed.index, removed.files, now, "expired", <<>>,
                     ZeroTtl, 0, {key}, TRUE, FALSE)}
       ELSE IF ~files[key].exists
       THEN {Outcome(removed.index, removed.files, now, "missing", <<>>,
                     ZeroTtl, 0, {key}, TRUE, FALSE)}
       ELSE {Outcome(get_touch(index, key, t2), files, t2, "hit",
                     files[key].bytes, [secs |-> entry.ttl_secs, nanos |-> 0],
                     0, {}, TRUE, FALSE) : t2 \in ClockReads}
            \cup
            {Outcome(index, files, now, "failed", <<>>, ZeroTtl, 0, {},
                     FALSE, TRUE)}

\* CacheStore::remove
remove(key) ==
    LET removed == remove_entry(index, files, key)
    IN {Outcome(removed.index, removed.files, now, "done", <<>>, ZeroTtl,
                0, {key} \cap KeysOf(index), TRUE, FALSE)}

\* CacheStore::clear
clear_all ==
    LET cleared == clear(index, files)
    IN {Outcome(cleared.index, cleared.files, now, "done", <<>>, ZeroTtl,
                0, KeysOf(index), TRUE, FALSE)}

\* ------------------------------------------------------------ history
\* how a call stands to the call that returned before it
After(key) ==
    IF last.op = "put" /\ last.out = "stored" /\ last.status = "ok"
       /\ last.key = key
    THEN (IF last.evicted > 0 THEN "put_evicting" ELSE "put")
    ELSE IF last.op = "put" /\ last.out = "stored" /\ last.status = "ok"
            /\ key \in last.victims
    THEN "victim"
    ELSE IF last.op = "clear"
    THEN (IF key \in last.victims THEN "cleared" ELSE "clear")
    ELSE "other"

Op(op, key, o, status) ==
    [op |-> op, key |-> key, val |-> o.val, ttl |-> o.ttl, out |-> o.out,
     status |-> status, evicted |-> o.evicted, victims |-> o.victims,
     t |-> now, after |-> After(key)]

NoOp == [op |-> "none", key |-> "-", val |-> <<>>, ttl |-> ZeroTtl,
         out |-> "none", status |-> "ok", evicted |-> 0, victims |-> {},
         t |-> 0, after |-> "other"]

\* a step in which a call of op returns (a call that changes neither the
\* index nor its own record of the call before it is a stuttering step)
Returned(op) ==
    /\ last'.op = op
    /\ last' # last \/ index' # index \/ faults' # faults

Threads == {"t1", "t2"}

\* a thread that is not inside a call of the store
Ready == [pc |-> "ready", op |-> "none", key |-> "-", val |-> <<>>,
          ttl |-> ZeroTtl, out |-> "none", res |-> <<>>, evicted |-> 0]

\* ------------------------------------------------------------ config
DEFAULT_CACHE_MAX_BYTES == 256 * 1024 * 1024
DEFAULT_CACHE_DEFAULT_TTL_SECS == 60
DEFAULT_CACHE_READ_FILE_TTL_SECS == 300
DEFAULT_CACHE_GREP_FILES_TTL_SECS == 10

\* Option<u64>, Option<bool>, Option<Duration>
NoneOf == [some |-> FALSE, v |-> 0]
NoBool == [some |-> FALSE, v |-> FALSE]
NoDuration == [some |-> FALSE, v |-> [secs |-> 0, nanos |-> 0]]
SomeOf(v) == [some |-> TRUE, v |-> v]
unwrap_or(o, d) == IF o.some THEN o.v ELSE d

\* Duration::from_secs
from_secs(n) == [secs |-> n, nanos |-> 0]

OptionSecs == {NoneOf} \cup {SomeOf(n) : n \in 1..MaxTomlSecs}

CacheToolTtlToml ==
    [read_file : OptionSecs, list_dir : OptionSecs, grep_files : OptionSecs]

CacheConfigToml ==
    [enabled : {NoBool, SomeOf(TRUE), SomeOf(FALSE)},
     max_bytes : {NoneOf, SomeOf(MaxBudget)},
     default_ttl_sec : OptionSecs,
     tool_ttl_sec : CacheToolTtlToml]

CacheToolTtlNone ==
    [read_file |-> NoDuration, list_dir |-> NoDuration,
     grep_files |-> NoDuration]

\* impl Default for CacheToolTtl
CacheToolTtlDefault ==
    [read_file |-> SomeOf(from_secs(DEFAULT_CACHE_READ_FILE_TTL_SECS)),
     list_dir |-> NoDuration,
     grep_files |-> SomeOf(from_secs(DEFAULT_CACHE_GREP_FILES_TTL_SECS))]

\* CacheToolTtl::override_with
override_with(self, overrides) ==
    [read_file |-> IF overrides.read_file.some
                   THEN SomeOf(from_secs(overrides.read_file.v))
                   ELSE self.read_file,
     list_dir |-> IF overrides.list_dir.some
                  THEN SomeOf(from_secs(overrides.list_dir.v))
                  ELSE self.list_dir,
     grep_files |-> IF overrides.grep_files.some
                    THEN SomeOf(from_secs(overrides.grep_files.v))
                    ELSE self.grep_files]

\* CacheToolTtl::for_tool
for_tool(self, tool) ==
    CASE tool = "ReadFile" -> self.read_file
      [] tool = "ListDir" -> self.list_dir
      [] tool = "GrepFiles" -> self.grep_files

\* CacheConfig::new
CacheConfigNew(cache) ==
    [enabled |-> unwrap_or(cache.enabled, TRUE),
     max_bytes |-> unwrap_or(cache.max_bytes, DEFAULT_CACHE_MAX_BYTES),
     default_ttl |-> from_secs(unwrap_or(cache.default_ttl_sec,
                                         DEFAULT_CACHE_DEFAULT_TTL_SECS)),
     tool_ttl |-> override_with(CacheToolTtlDefault, cache.tool_ttl_sec)]

\* CacheConfig::ttl_for
ttl_for(self, tool) == unwrap_or(for_tool(self.tool_ttl, tool), self.default_ttl)

\* impl Default for CacheConfigToml
CacheConfigTomlDefault ==
    [enabled |-> NoBool, max_bytes |-> NoneOf, default_ttl_sec |-> NoneOf,
     tool_ttl_sec |-> [read_file |-> NoneOf, list_dir |-> NoneOf,
                       grep_files |-> NoneOf]]

\* no configuration read yet
NoConf == [pc |-> "none", toml |-> CacheConfigTomlDefault,
           config |-> CacheConfigNew(CacheConfigTomlDefault),
           tool |-> "-", ttl |-> ZeroTtl]

\* ------------------------------------------------------------ cache keys
\* Strings are sequences of characters; Byte gives the byte of a character,
\* by which String::cmp orders.
Byte(c) ==
    CASE c = "a" -> 97 [] c = "b" -> 98 [] c = "c" -> 99 [] c = "d" -> 100
      [] c = "e" -> 101 [] c = "g" -> 103 [] c = "h" -> 104 [] c = "i" -> 105
      [] c = "k" -> 107 [] c = "l" -> 108 [] c = "m" -> 109 [] c = "n" -> 110 [] c = "o" -> 111
      [] c = "p" -> 112 [] c = "r" -> 114 [] c = "s" -> 115 [] c = "t" -> 116
      [] c = "u" -> 117 [] c = "w" -> 119 [] c = "x" -> 120 [] c = "_" -> 95

RECURSIVE StrLess(_, _)
StrLess(x, y) ==
    IF x = <<>> THEN y # <<>>
    ELSE IF y = <<>> THEN FALSE
    ELSE IF Head(x) = Head(y) THEN StrLess(Tail(x), Tail(y))
    ELSE Byte(Head(x)) < Byte(Head(y))

\* serde_json::Value; a member of an object is its value with the key in k
JsonNull == [kind |-> "null", k |-> <<>>, n |-> 0, s |-> <<>>, items |-> <<>>]
JsonNumber(n) == [JsonNull EXCEPT !.kind = "num", !.n = n]
JsonString(s) == [JsonNull EXCEPT !.kind = "str", !.s = s]
JsonArray(items) == [JsonNull EXCEPT !.kind = "arr", !.items = items]
JsonObject(members) == [JsonNull EXCEPT !.kind = "obj", !.items = members]
Member(key, v) == [v EXCEPT !.k = key]

\* Vec<String>::sort over the members' keys, the members carried along
RECURSIVE InsertMember(_, _)
InsertMember(sorted, m) ==
    IF sorted = <<>> THEN <<m>>
    ELSE IF StrLess(m.k, Head(sorted).k) THEN <<m>> \o sorted
    ELSE <<Head(sorted)>> \o InsertMember(Tail(sorted), m)

RECURSIVE SortMembers(_)
SortMembers(members) ==
    IF members = <<>> THEN <<>>
    ELSE InsertMember(SortMembers(Tail(members)), Head(members))

canonical_json_shallow(value) ==
    IF value.kind = "obj"
    THEN [value EXCEPT !.items = SortMembers(value.items)]
    ELSE value

RECURSIVE canonical_json(_)
canonical_json(value) ==
    IF value.kind = "obj"
    THEN [value EXCEPT !.items =
             SortMembers([i \in 1..Len(value.items) |->
                             canonical_json(value.items[i])])]
    ELSE IF value.kind = "arr"
    THEN [value EXCEPT !.items =
             [i \in 1..Len(value.items) |-> canonical_json(value.items[i])]]
    ELSE value

\* {n} of format!, for an unsigned integer
RECURSIVE Decimal(_)
Decimal(n) ==
    LET digit == CASE n % 10 = 0 -> "0" [] n % 10 = 1 -> "1"
                   [] n % 10 = 2 -> "2" [] n % 10 = 3 -> "3"
                   [] n % 10 = 4 -> "4" [] n % 10 = 5 -> "5"
                   [] n % 10 = 6 -> "6" [] n % 10 = 7 -> "7"
                   [] n % 10 = 8 -> "8" [] n % 10 = 9 -> "9"
    IN IF n < 10 THEN <<digit>> ELSE Decimal(n \div 10) \o <<digit>>

\* a string as serde_json writes it: quoted, quote and backslash escaped, a
\* line feed written as \n
RECURSIVE Escaped(_)
Escaped(s) ==
    IF s = <<>> THEN <<>>
    ELSE (IF Head(s) \in {"\"", "\\"} THEN <<"\\", Head(s)>>
          ELSE IF Head(s) = "\n" THEN <<"\\", "n">>
          ELSE <<Head(s)>>)
         \o Escaped(Tail(s))

Quoted(s) == <<"\"">> \o Escaped(s) \o <<"\"">>

\* serde_json::to_string (compact)
RECURSIVE to_string(_)
RECURSIVE WriteItems(_, _)
WriteItems(items, keyed_items) ==
    IF items = <<>> THEN <<>>
    ELSE (IF keyed_items THEN Quoted(Head(items).k) \o <<":">> ELSE <<>>)
         \o to_string(Head(items))
         \o (IF Tail(items) = <<>> THEN <<>> ELSE <<",">>)
         \o WriteItems(Tail(items), keyed_items)

to_string(value) ==
    CASE value.kind = "null" -> <<"n", "u", "l", "l">>
      [] value.kind = "num" -> Decimal(value.n)
      [] value.kind = "str" -> Quoted(value.s)
      [] value.kind = "arr" -> <<"[">> \o WriteItems(value.items, FALSE) \o <<"]">>
      [] value.kind = "obj" -> <<"{">> \o WriteItems(value.items, TRUE) \o <<"}">>

\* fn normalize_path
RECURSIVE normalize_path(_)
normalize_path(path) ==
    IF path = <<>> THEN <<>>
    ELSE <<IF Head(path) = "\\" THEN "/" ELSE Head(path)>>
         \o normalize_path(Tail(path))

\* the lowercase hex of the SHA-256 of raw, with the digest taken to be
\* free of collisions: two digests are equal exactly if their inputs are
Sha256Hex(raw) == [sha256 |-> raw]

PathStamp(mtime_nanos, size_bytes) ==
    [mtime_nanos |-> mtime_nanos, size_bytes |-> size_bytes]

build_tool_cache_key_unseparated(tool_name, args, workspace_root, target_path, stamp) ==
    Sha256Hex(tool_name \o <<"|">> \o to_string(canonical_json(args))
              \o <<"|">> \o normalize_path(workspace_root)
              \o <<"|">> \o normalize_path(target_path)
              \o <<"|">> \o Decimal(stamp.mtime_nanos)
              \o Decimal(stamp.size_bytes))

build_tool_cache_key(tool_name, args, workspace_root, target_path, stamp) ==
    LET canonical_args == canonical_json(args)
        serialized_args == to_string(canonical_args)
        workspace == normalize_path(workspace_root)
        target == normalize_path(target_path)
        raw_key == tool_name \o <<"|">> \o serialized_args
                   \o <<"|">> \o workspace \o <<"|">> \o target
                   \o <<"|">> \o Decimal(stamp.mtime_nanos)
                   \o <<"|">> \o Decimal(stamp.size_bytes)
    IN Sha256Hex(raw_key)

\* the same JSON value: objects are maps of keys to values, whatever the
\* order their members were inserted in; arrays are sequences
RECURSIVE SameJson(_, _)
SameJson(x, y) ==
    /\ x.kind = y.kind /\ x.n = y.n /\ x.s = y.s
    /\ Len(x.items) = Len(y.items)
    /\ IF x.kind = "obj"
       THEN \A i \in 1..Len(x.items) : \E j \in 1..Len(y.items) :
               x.items[i].k = y.items[j].k /\ SameJson(x.items[i], y.items[j])
       ELSE \A i \in 1..Len(x.items) : SameJson(x.items[i], y.items[i])

\* value with two neighbours swapped, among the members of one of its
\* objects or the elements of one of its arrays, at any depth
RECURSIVE Swaps(_)
Swaps(value) ==
    {[value EXCEPT !.items = [@ EXCEPT ![i] = value.items[i + 1],
                                       ![i + 1] = value.items[i]]] :
        i \in 1..(Len(value.items) - 1)}
    \cup UNION {{[value EXCEPT !.items[i] = w] : w \in Swaps(value.items[i])} :
                  i \in 1..Len(value.items)}

\* arguments: scalars, and arrays and objects of them, nested twice
MemberKeys == {<<"a">>, <<"a", "b">>, <<"b">>}
Scalars == {JsonNumber(1), JsonString(<<"x">>)}
Pairs(values) ==
    {JsonArray(<<v, w>>) : v \in values, w \in values}
    \cup {JsonObject(<<Member(j, v), Member(k, w)>>) :
             <<j, k>> \in {jk \in MemberKeys \X MemberKeys : jk[1] # jk[2]},
             <<v, w>> \in values \X values}
Args == Pairs(Scalars \cup Pairs(Scalars))

\* ------------------------------------------------------------ grep_files
NoString == [some |-> FALSE, v |-> <<>>]

RepoState(head_ref, index_mtime_nanos) ==
    [head_ref |-> head_ref, index_mtime_nanos |-> index_mtime_nanos]

NoRepoState == [some |-> FALSE, v |-> RepoState(NoString, NoneOf)]

\* serde_json::json! of an Option<String> and of an Option of an unsigned
OfString(o) == IF o.some THEN JsonString(o.v) ELSE JsonNull
OfNumber(o) == IF o.some THEN JsonNumber(o.v) ELSE JsonNull

Fingerprint(inputs, git) ==
    JsonObject(<<
        Member(<<"t", "o", "o", "l">>,
               JsonString(<<"g", "r", "e", "p", "_", "f", "i", "l", "e", "s">>)),
        Member(<<"w", "o", "r", "k", "s", "p", "a", "c", "e">>,
               JsonString(normalize_path(inputs.workspace_root))),
        Member(<<"p", "a", "t", "h">>,
               JsonString(normalize_path(inputs.search_path))),
        Member(<<"p", "a", "t", "t", "e", "r", "n">>,
               JsonString(inputs.pattern)),
        Member(<<"i", "n", "c", "l", "u", "d", "e">>, OfString(inputs.include)),
        Member(<<"l", "i", "m", "i", "t">>, JsonNumber(inputs.limit)),
        Member(<<"g", "i", "t">>, git)>>)

build_grep_cache_key_by_mtime(inputs) ==
    Sha256Hex(to_string(canonical_json(Fingerprint(inputs,
        IF inputs.repo_state.some
        THEN JsonObject(<<
               Member(<<"i", "n", "d", "e", "x", "_", "m", "t", "i", "m", "e">>,
                      OfNumber(inputs.repo_state.v.index_mtime_nanos))>>)
        ELSE JsonNull))))

build_grep_cache_key(inputs) ==
    LET fingerprint ==
            Fingerprint(inputs,
                IF inputs.repo_state.some
                THEN JsonObject(<<
                       Member(<<"h", "e", "a", "d">>,
                              OfString(inputs.repo_state.v.head_ref)),
                       Member(<<"i", "n", "d", "e", "x", "_", "m", "t", "i",
                                "m", "e">>,
                              OfNumber(inputs.repo_state.v.index_mtime_nanos))>>)
                ELSE JsonNull)
        canonical == canonical_json(fingerprint)
        serialized == to_string(canonical)
    IN Sha256Hex(serialized)

\* the text of HEAD, or none when it cannot be read
HeadRefs ==
    {NoString, SomeOf(<<"m">>), SomeOf(<<"f">>), SomeOf(<<"m", "\"">>)}

\* what detect_repo_state hands back: none when neither HEAD nor the index
\* can be read
RepoStates ==
    {NoRepoState}
    \cup {SomeOf(RepoState(h, m)) :
             <<h, m>> \in {hm \in HeadRefs
                                   \X ({NoneOf} \cup {SomeOf(n) : n \in 0..MaxStamp}) :
                             hm[1].some \/ hm[2].some}}

GrepCacheKeyInputs(include, limit, repo_state) ==
    [workspace_root |-> <<"\\", "w">>, search_path |-> <<"\\", "w", "/", "a">>,
     pattern |-> <<"a", "l", "p", "h", "a">>, include |-> include,
     limit |-> limit, repo_state |-> repo_state]

\* Duration::min: Ord of Duration compares seconds, then nanoseconds
DurationMin(a, b) ==
    IF a.secs < b.secs \/ (a.secs = b.secs /\ a.nanos <= b.nanos) THEN a ELSE b

cache_ttl_for_repo_state_uncapped(configured, repo_state) == configured

cache_ttl_for_repo_state(configured, repo_state) ==
    IF repo_state.some
    THEN configured
    ELSE DurationMin(configured, from_secs(DEFAULT_CACHE_GREP_FILES_TTL_SECS))

NoKeyed == [pc |-> "none"]
NoKey == Sha256Hex(<<>>)

ToolInput(args, stamp) ==
    [tool_name |-> <<"r", "e", "a", "d", "_", "f", "i", "l", "e">>,
     args |-> args, workspace_root |-> <<"\\", "w">>,
     target_path |-> <<"\\", "w", "/", "a">>, stamp |-> stamp]

\* ------------------------------------------------------------ run_rg_search
COMMAND_TIMEOUT == 30

\* a byte that is part of no UTF-8 text
BadByte == "0xFF"

\* stdout.split(|byte| *byte == b'\n')
RECURSIVE SplitLines(_, _)
SplitLines(bytes, line) ==
    IF bytes = <<>> THEN <<line>>
    ELSE IF Head(bytes) = "\n" THEN <<line>> \o SplitLines(Tail(bytes), <<>>)
    ELSE SplitLines(Tail(bytes), Append(line, Head(bytes)))

\* the loop of parse_results over the lines
RECURSIVE PushLines(_, _, _)
PushLines(lines, limit, results) ==
    IF lines = <<>> THEN results
    ELSE LET line == Head(lines)
         IN IF line = <<>> \/ (\E i \in 1..Len(line) : line[i] = BadByte)
            THEN PushLines(Tail(lines), limit, results)
            ELSE IF Len(results) + 1 = limit THEN Append(results, line)
            ELSE PushLines(Tail(lines), limit, Append(results, line))

\* fn parse_results
parse_results(stdout, limit) == PushLines(SplitLines(stdout, <<>>), limit, <<>>)

RgOk(results) == [ok |-> TRUE, results |-> results, message |-> <<>>]
RgErr(message) == [ok |-> FALSE, results |-> <<>>, message |-> message]

run_rg_search_lenient(run, limit) ==
    IF ~run.launched THEN RgErr(<<"failed to launch rg: ">> \o run.error)
    ELSE IF run.code = SomeOf(0) THEN RgOk(parse_results(run.stdout, limit))
    ELSE RgOk(<<>>)

\* fn run_rg_search, from timeout(COMMAND_TIMEOUT, command.output()) on: run
\* is what becomes of the process, took the seconds until output() is ready
run_rg_search(run, limit) ==
    IF run.took > COMMAND_TIMEOUT
    THEN RgErr(<<"rg timed out after 30 seconds">>)
    ELSE IF ~run.launched
    THEN RgErr(<<"failed to launch rg: ">> \o run.error)
    ELSE IF run.code = SomeOf(0) THEN RgOk(parse_results(run.stdout, limit))
    ELSE IF run.code = SomeOf(1) THEN RgOk(<<>>)
    ELSE RgErr(<<"rg failed: ">> \o run.stderr)

\* ------------------------------------------------------------ search_cmd
\* str::len: the bytes of the UTF-8 text, two for the one character of the
\* model that is not ASCII
RECURSIVE StrLen(_)
StrLen(text) ==
    IF text = <<>> THEN 0
    ELSE (IF Head(text) = "é" THEN 2 ELSE 1) + StrLen(Tail(text))

\* usize::MAX of read_snippet_lines, the budget that is none
Unlimited == 0 - 1

\* line.chars().take(remaining).collect()
TakeChars(line, remaining) ==
    IF Len(line) <= remaining THEN line ELSE SubSeq(line, 1, remaining)

\* the loop of read_snippet_lines over contents.lines().enumerate()
RECURSIVE SnippetFrom(_, _, _, _, _, _)
SnippetFrom(lines, idx, start, end, remaining, out) ==
    IF idx >= Len(lines) THEN out
    ELSE LET line_number == idx + 1
             line == lines[line_number]
             text == IF remaining = Unlimited \/ StrLen(line) <= remaining
                     THEN line ELSE TakeChars(line, remaining)
             left == IF remaining = Unlimited THEN remaining
                     ELSE SatSub(remaining, StrLen(text))
             pushed == Append(out, [line_number |-> line_number, text |-> text])
         IN IF line_number < start
            THEN SnippetFrom(lines, idx + 1, start, end, remaining, out)
            ELSE IF line_number > end THEN out
            ELSE IF remaining = 0 /\ out # <<>> THEN out
            ELSE IF left = 0 THEN pushed
            ELSE SnippetFrom(lines, idx + 1, start, end, left, pushed)

read_snippet_lines_whole(file, start_line, end_line, max_chars) ==
    IF ~file.readable THEN [ok |-> FALSE, snippet |-> <<>>]
    ELSE [ok |-> TRUE,
          snippet |-> SnippetFrom(file.lines, 0, start_line, end_line,
                                  Unlimited, <<>>)]

\* fn read_snippet_lines
read_snippet_lines(file, start_line, end_line, max_chars) ==
    IF ~file.readable THEN [ok |-> FALSE, snippet |-> <<>>]
    ELSE IF file.lines = <<>> THEN [ok |-> TRUE, snippet |-> <<>>]
    ELSE LET start == IF start_line < 1 THEN 1 ELSE start_line
             end == IF end_line < start THEN start ELSE end_line
             remaining == IF max_chars = 0 THEN Unlimited ELSE max_chars
         IN [ok |-> TRUE,
             snippet |-> SnippetFrom(file.lines, 0, start, end, remaining, <<>>)]

\* format!("  {line_number:>width$} | {text}")
RECURSIVE PadLeft(_, _)
PadLeft(text, width) ==
    IF Len(text) >= width THEN text ELSE PadLeft(<<" ">> \o text, width)

\* fn format_search_results, the lines of one result's snippet
format_snippet(snippet, end_line) ==
    LET digits == Len(Decimal(end_line))
        width == IF digits < 1 THEN 1 ELSE digits
    IN [i \in 1..Len(snippet) |->
          <<" ", " ">> \o PadLeft(Decimal(snippet[i].line_number), width)
          \o <<" ", "|", " ">> \o snippet[i].text]

\* ------------------------------------------------------------ embeddings
\* An f32 is its 32 bits, as four bytes, the sign and exponent first.
F32Zero == <<0, 0, 0, 0>>
F32One == <<63, 128, 0, 0>>
F32MinusOne == <<191, 128, 0, 0>>
\* 2^50 and 2^100: the square of the first is finite, the square of the
\* second is not
F32Large == <<88, 128, 0, 0>>
F32Huge == <<113, 128, 0, 0>>
\* a NaN, and a value whose four bytes all differ
F32NaN == <<127, 192, 0, 0>>
F32Odd == <<1, 2, 3, 4>>

to_be_bytes(x) == x

\* f32::to_le_bytes
to_le_bytes(x) == <<x[4], x[3], x[2], x[1]>>

\* f32::from_le_bytes
from_le_bytes(array) == <<array[4], array[3], array[2], array[1]>>

\* fn encode_embedding
RECURSIVE encode_embedding(_)
encode_embedding(embedding) ==
    IF embedding = <<>> THEN <<>>
    ELSE to_le_bytes(Head(embedding)) \o encode_embedding(Tail(embedding))

\* bytes.chunks_exact(4), each made an f32
RECURSIVE DecodeValues(_)
DecodeValues(bytes) ==
    IF Len(bytes) < 4 THEN <<>>
    ELSE <<from_le_bytes(SubSeq(bytes, 1, 4))>>
         \o DecodeValues(SubSeq(bytes, 5, Len(bytes)))

\* fn decode_embedding
decode_embedding(bytes) ==
    IF Len(bytes) % 4 # 0
    THEN [ok |-> FALSE, values |-> <<>>]
    ELSE [ok |-> TRUE, values |-> DecodeValues(bytes)]

\* ------------------------------------------------------------ f32 arithmetic
\* The value of an f32: m * 2^(50 * e) with a small whole m, an infinity of
\* the sign of m, or NaN. Of the results of IEEE 754 arithmetic the model has
\* those that are exact in this form, the overflows above 2^128 and the sums
\* in which the smaller term is lost below the 24 bits of the greater; any
\* other result is "inexact" and is met by no input of the model.
Fin(m, e) == [k |-> "fin", m |-> m, e |-> IF m = 0 THEN 0 ELSE e]
Inf(sign) == [k |-> "inf", m |-> sign, e |-> 0]
NaN == [k |-> "nan", m |-> 0, e |-> 0]
Inexact == [k |-> "inexact", m |-> 0, e |-> 0]
Sign(m) == IF m > 0 THEN 1 ELSE IF m < 0 THEN 0 - 1 ELSE 0

\* the value of the bits of an f32
Value(bits) ==
    CASE bits = F32Zero -> Fin(0, 0)
      [] bits = F32One -> Fin(1, 0)
      [] bits = F32MinusOne -> Fin(0 - 1, 0)
      [] bits = F32Large -> Fin(1, 1)
      [] bits = F32Huge -> Fin(1, 2)
      [] OTHER -> Inexact

Unsettled(x, y) ==
    x.k = "inexact" \/ y.k = "inexact"

\* a * b
f32_mul(x, y) ==
    CASE Unsettled(x, y) -> Inexact
      [] x.k = "nan" \/ y.k = "nan" -> NaN
      [] x.k = "inf" \/ y.k = "inf" ->
            IF x.m = 0 \/ y.m = 0 THEN NaN ELSE Inf(Sign(x.m) * Sign(y.m))
      [] OTHER ->
            IF x.m * y.m # 0 /\ x.e + y.e >= 3
            THEN Inf(Sign(x.m) * Sign(y.m))
            ELSE Fin(x.m * y.m, x.e + y.e)

\* a + b
f32_add(x, y) ==
    CASE Unsettled(x, y) -> Inexact
      [] x.k = "nan" \/ y.k = "nan" -> NaN
      [] x.k = "inf" /\ y.k = "inf" -> IF x.m = y.m THEN x ELSE NaN
      [] x.k = "inf" -> x
      [] y.k = "inf" -> y
      [] x.m = 0 -> y
      [] y.m = 0 -> x
      [] x.e = y.e -> Fin(x.m + y.m, x.e)
      [] x.e > y.e -> x
      [] OTHER -> y

\* f32::sqrt
f32_sqrt(x) ==
    CASE x.k = "inexact" -> Inexact
      [] x.k = "nan" -> NaN
      [] x.k = "inf" -> IF x.m > 0 THEN x ELSE NaN
      [] x.m = 0 -> x
      [] x.m = 1 /\ x.e % 2 = 0 -> Fin(1, x.e \div 2)
      [] x.m < 0 -> NaN
      [] OTHER -> Inexact

\* a / b, b not zero
f32_div(x, y) ==
    CASE Unsettled(x, y) -> Inexact
      [] x.k = "nan" \/ y.k = "nan" -> NaN
      [] x.k = "inf" /\ y.k = "inf" -> NaN
      [] x.k = "inf" -> Inf(x.m * Sign(y.m))
      [] y.k = "inf" -> Fin(0, 0)
      [] y.m = 1 \/ y.m = 0 - 1 -> Fin(x.m * y.m, x.e - y.e)
      [] OTHER -> Inexact

\* a < b, neither NaN
f32_lt(x, y) ==
    CASE x.k = "inf" -> x.m < 0 /\ ~(y.k = "inf" /\ y.m < 0)
      [] y.k = "inf" -> y.m > 0
      [] Sign(x.m) # Sign(y.m) -> Sign(x.m) < Sign(y.m)
      [] x.m > 0 -> x.e < y.e \/ (x.e = y.e /\ x.m < y.m)
      [] x.m < 0 -> x.e > y.e \/ (x.e = y.e /\ x.m < y.m)
      [] OTHER -> FALSE

\* f32::partial_cmp
partial_cmp(x, y) ==
    CASE x.k = "nan" \/ y.k = "nan" -> "None"
      [] f32_lt(x, y) -> "Less"
      [] f32_lt(y, x) -> "Greater"
      [] OTHER -> "Equal"

\* the three sums of cosine_similarity's loop, from index i on
RECURSIVE Sums(_, _, _, _)
Sums(query, other, i, acc) ==
    IF i > Len(query) THEN acc
    ELSE LET a == Value(query[i])
             b == Value(other[i])
         IN Sums(query, other, i + 1,
                 [dot |-> f32_add(acc.dot, f32_mul(a, b)),
                  norm_a |-> f32_add(acc.norm_a, f32_mul(a, a)),
                  norm_b |-> f32_add(acc.norm_b, f32_mul(b, b))])

NoScore == [some |-> FALSE, v |-> Fin(0, 0)]

cosine_similarity_padded(query, other) ==
    IF query = <<>> THEN NoScore ELSE [some |-> TRUE, v |-> Fin(0, 0)]

\* fn cosine_similarity
cosine_similarity(query, other) ==
    IF Len(query) # Len(other) \/ query = <<>> THEN NoScore
    ELSE LET sums == Sums(query, other, 1,
                          [dot |-> Fin(0, 0), norm_a |-> Fin(0, 0),
                           norm_b |-> Fin(0, 0)])
             denom == f32_mul(f32_sqrt(sums.norm_a), f32_sqrt(sums.norm_b))
         IN IF denom = Fin(0, 0) THEN NoScore
            ELSE [some |-> TRUE, v |-> f32_div(sums.dot, denom)]

\* ------------------------------------------------------------ chunk_lines
Whitespace == {" ", "\t", "\n", "\r"}

\* str::trim().is_empty()
RECURSIVE TrimIsEmpty(_)
TrimIsEmpty(text) ==
    text = <<>> \/ (Head(text) \in Whitespace /\ TrimIsEmpty(Tail(text)))

\* [String]::join("\n")
RECURSIVE JoinLines(_)
JoinLines(lines) ==
    IF lines = <<>> THEN <<>>
    ELSE IF Len(lines) = 1 THEN Head(lines)
    ELSE Head(lines) \o <<"\n">> \o JoinLines(Tail(lines))

Chunk(start_line, end_line, text) ==
    [start_line |-> start_line, end_line |-> end_line, text |-> text]

\* the windows of lines.chunks(max_lines) from window chunk_index on
RECURSIVE ChunksFrom(_, _, _)
ChunksFrom(lines, max_lines, chunk_index) ==
    IF lines = <<>> THEN <<>>
    ELSE LET n == IF Len(lines) < max_lines THEN Len(lines) ELSE max_lines
             chunk_lines_ == SubSeq(lines, 1, n)
             start_line == chunk_index * max_lines + 1
             end_line == start_line + SatSub(Len(chunk_lines_), 1)
             text == JoinLines(chunk_lines_)
             rest == ChunksFrom(SubSeq(lines, n + 1, Len(lines)), max_lines,
                                chunk_index + 1)
         IN IF TrimIsEmpty(text) THEN rest
            ELSE <<Chunk(start_line, end_line, text)>> \o rest

chunk_lines_unfiltered(lines, max_lines) ==
    IF max_lines = 0 THEN <<>>
    ELSE [i \in 1..((Len(lines) + max_lines - 1) \div max_lines) |->
            LET start_line == (i - 1) * max_lines + 1
                end_line == IF start_line + max_lines - 1 < Len(lines)
                            THEN start_line + max_lines - 1 ELSE Len(lines)
            IN Chunk(start_line, end_line,
                     JoinLines(SubSeq(lines, start_line, end_line)))]

\* fn chunk_lines
chunk_lines(lines, max_lines) ==
    IF max_lines = 0 THEN <<>> ELSE ChunksFrom(lines, max_lines, 0)

\* ------------------------------------------------------------ vector store
\* index.sqlite: absent, or the three tables; meta holds no row or one
NoDb == [exists |-> FALSE, files |-> {}, chunks |-> {}, meta |-> <<>>]
EmptyDb == [exists |-> TRUE, files |-> {}, chunks |-> {}, meta |-> <<>>]

open_create_or_open(store, mode) ==
    IF mode = "OpenExisting" /\ ~store.exists
    THEN [ok |-> FALSE, db |-> store]
    ELSE [ok |-> TRUE, db |-> [store EXCEPT !.exists = TRUE]]

\* VectorStore::open, when the file system and SQLite do not fail
open(store, mode) ==
    CASE mode = "Reset" -> [ok |-> TRUE, db |-> EmptyDb]
      [] mode = "OpenExisting" ->
            IF store.exists THEN [ok |-> TRUE, db |-> store]
            ELSE [ok |-> FALSE, db |-> store]
      [] mode = "CreateOrOpen" ->
            [ok |-> TRUE, db |-> [store EXCEPT !.exists = TRUE]]

FileEntry(path, content_hash, size) ==
    [path |-> path, content_hash |-> content_hash, mtime |-> 0, size |-> size]

\* VectorStore::store_file: INSERT OR REPLACE, path the primary key
store_file(store, file) ==
    [store EXCEPT !.files = {r \in @ : r.path # file.path} \cup {file}]

\* VectorStore::store_chunk: INSERT OR REPLACE, chunk_id the primary key; the
\* embedding goes in as a blob
store_chunk(store, chunk) ==
    [store EXCEPT !.chunks =
        {r \in @ : r.chunk_id # chunk.chunk_id}
        \cup {[file_path |-> chunk.file_path, chunk_id |-> chunk.chunk_id,
                start_line |-> chunk.start_line, end_line |-> chunk.end_line,
                text_hash |-> chunk.text_hash,
                embedding |-> encode_embedding(chunk.embedding),
                updated_at |-> chunk.updated_at]}]

\* VectorStore::store_meta: DELETE FROM meta, then the one row
store_meta(store, meta) == [store EXCEPT !.meta = <<meta>>]

index_stats_defaulted(store) ==
    [file_count |-> Cardinality(store.files),
     chunk_count |-> Cardinality(store.chunks),
     embedding_model |-> NoString,
     embedding_dim |-> SomeOf(0),
     created_at |-> NoneOf]

\* VectorStore::stats: the two counts, and the meta row if there is one; the
\* created_at text of the row is the RFC 3339 text store_meta wrote
index_stats(store) ==
    [file_count |-> Cardinality(store.files),
     chunk_count |-> Cardinality(store.chunks),
     embedding_model |-> IF store.meta = <<>> THEN NoString
                         ELSE SomeOf(store.meta[1].embedding_model),
     embedding_dim |-> IF store.meta = <<>> THEN NoneOf
                       ELSE SomeOf(store.meta[1].dim),
     created_at |-> IF store.meta = <<>> THEN NoneOf
                    ELSE SomeOf(store.meta[1].created_at)]

NoStats == [file_count |-> 0, chunk_count |-> 0, embedding_model |-> NoString,
            embedding_dim |-> NoneOf, created_at |-> NoneOf]

\* ------------------------------------------------------------ semantic index
\* the files of the workspace: relative paths, and what a read of each finds
Paths == {<<"a">>, <<"b">>}
NoSuchFile == [kind |-> "absent", lines |-> <<>>]
TextFile(lines) == [kind |-> "text", lines |-> lines]
FileStates ==
    {NoSuchFile,
     [kind |-> "unreadable", lines |-> <<>>],
     [kind |-> "binary", lines |-> <<<<"x">>>>],
     TextFile(<<>>),
     TextFile(<<<<" ">>>>),
     TextFile(<<<<"x">>>>),
     TextFile(<<<<"x">>, <<"x">>, <<"y">>>>)}
Trees == [Paths -> FileStates]
NoWorkspace == [p \in Paths |-> NoSuchFile]

\* the vectors the provider answers with
Vectors == {<<>>, <<F32One>>, <<F32One, F32Zero>>}

\* fn chunk_id: the digest of "{path}:{start_line}-{end_line}:{text_hash}"
chunk_id(path, start_line, end_line, text_hash) ==
    Sha256Hex(path \o <<":">> \o Decimal(start_line) \o <<"-">>
              \o Decimal(end_line) \o <<":">> \o text_hash.sha256)

SemanticIndexConfig(is_on, max_lines) ==
    [enabled |-> is_on, max_lines |-> max_lines]

NoBuild == [pc |-> "idle", config |-> SemanticIndexConfig(TRUE, MaxLines),
            created_at |-> 0, todo |-> <<>>, file |-> <<>>,
            pending |-> <<>>, embedding_dim |-> NoneOf, result |-> "none",
            error |-> "none", stats |-> NoStats, replaced |-> {},
            counts |-> [chunks |-> 0, embeddings |-> 0]]
NoRequest == [requests |-> 0]
NoSearch == [pc |-> "none", query |-> <<>>, top_k |-> 0, result |-> "none",
             error |-> "none", got |-> 0, embedding |-> <<>>,
             listing |-> <<>>, scored |-> <<>>, hits |-> <<>>]

\* all orders of a finite set
RECURSIVE Orders(_)
Orders(set) ==
    IF set = {} THEN {<<>>}
    ELSE UNION {{<<x>> \o rest : rest \in Orders(set \ {x})} : x \in set}

response_shorter(embeddings, chunks) == Len(embeddings) < Len(chunks)

\* embeddings.len() != chunks.len()
response_mismatch(embeddings, chunks) == Len(embeddings) # Len(chunks)

dimension_unchecked(embedding_dim, embedding) == FALSE

\* if let Some(dim) = embedding_dim { if dim != embedding.len() ..
dimension_changed(embedding_dim, embedding) ==
    embedding_dim.some /\ embedding_dim.v # Len(embedding)

SearchHit(candidate, score) ==
    [file_path |-> candidate.file_path, start_line |-> candidate.start_line,
     end_line |-> candidate.end_line, score |-> score,
     chunk_id |-> candidate.chunk_id]

\* str::cmp and usize::cmp
Cmp(less, equal) == IF equal THEN "Equal" ELSE IF less THEN "Less" ELSE "Greater"

\* fn score_cmp
score_cmp(a, b) ==
    LET by_score == partial_cmp(b.score, a.score)
        first == IF by_score = "None" THEN "Equal" ELSE by_score
    IN IF first # "Equal" THEN first
       ELSE IF a.file_path # b.file_path
       THEN Cmp(StrLess(a.file_path, b.file_path), FALSE)
       ELSE Cmp(a.start_line < b.start_line, a.start_line = b.start_line)

\* the insertion of the last element into the sorted slice before it, as
\* slice::sort_by does it for a slice this short
RECURSIVE InsertTail(_, _)
InsertTail(sorted, tail) ==
    IF sorted = <<>> THEN <<tail>>
    ELSE IF score_cmp(tail, sorted[Len(sorted)]) = "Less"
    THEN InsertTail(SubSeq(sorted, 1, Len(sorted) - 1), tail)
         \o <<sorted[Len(sorted)]>>
    ELSE sorted \o <<tail>>

\* slice::sort_by(score_cmp)
RECURSIVE SortFrom(_, _)
SortFrom(sorted, rest) ==
    IF rest = <<>> THEN sorted
    ELSE SortFrom(InsertTail(sorted, Head(rest)), Tail(rest))

sort_by(hits) == SortFrom(<<>>, hits)

\* Vec::truncate
truncate(hits, len) == IF Len(hits) <= len THEN hits ELSE SubSeq(hits, 1, len)

\* VectorStore::list_embeddings, the rows in the order the database gives
\* them
list_embeddings(rows) ==
    [ok |-> \A i \in 1..Len(rows) : decode_embedding(rows[i].embedding).ok,
     records |-> [i \in 1..Len(rows) |->
                    [file_path |-> rows[i].file_path,
                     chunk_id |-> rows[i].chunk_id,
                     start_line |-> rows[i].start_line,
                     end_line |-> rows[i].end_line,
                     embedding |-> decode_embedding(rows[i].embedding).values]]]

\* candidates.into_iter().filter_map(..).collect()
RECURSIVE Scored(_, _)
Scored(embedding, candidates) ==
    IF candidates = <<>> THEN <<>>
    ELSE LET score == cosine_similarity(embedding, Head(candidates).embedding)
             rest == Scored(embedding, Tail(candidates))
         IN IF score.some THEN <<SearchHit(Head(candidates), score.v)>> \o rest
            ELSE rest

\* the stores a build leaves of a workspace of the files a (three lines) and
\* b (one line), either of which may be missing
SearchTree ==
    [p \in Paths |-> IF p = <<"a">> THEN TextFile(<<<<"x">>, <<"x">>, <<"y">>>>)
                     ELSE TextFile(<<<<"x">>>>)]

ChunkEntries(path, vectors) ==
    LET chunks == chunk_lines(SearchTree[path].lines, MaxLines)
    IN [i \in 1..Len(chunks) |->
          [file_path |-> path,
           chunk_id |-> chunk_id(path, chunks[i].start_line, chunks[i].end_line,
                                 Sha256Hex(chunks[i].text)),
           start_line |-> chunks[i].start_line,
           end_line |-> chunks[i].end_line,
           text_hash |-> Sha256Hex(chunks[i].text),
           embedding |-> vectors[i],
           updated_at |-> 1]]

RECURSIVE StoreChunks(_, _)
StoreChunks(store, entries) ==
    IF entries = <<>> THEN store
    ELSE StoreChunks(store_chunk(store, Head(entries)), Tail(entries))

StoredVectors(dim) ==
    CASE dim = 0 -> {<<>>}
      [] dim = 1 -> {<<F32One>>, <<F32MinusOne>>, <<F32Zero>>}
      [] dim = 2 -> {<<F32Zero, F32One>>, <<F32Zero, F32MinusOne>>,
                     <<F32Huge, F32Zero>>, <<F32Zero, F32Zero>>}

BuiltStores ==
    UNION {
      UNION {
        {store_meta(
            StoreChunks(
              StoreChunks(
                IF with_a THEN store_file(
                                 IF with_b
                                 THEN store_file(EmptyDb,
                                        FileEntry(<<"b">>, Sha256Hex(SearchTree[<<"b">>].lines), 1))
                                 ELSE EmptyDb,
                                 FileEntry(<<"a">>, Sha256Hex(SearchTree[<<"a">>].lines), 5))
                ELSE IF with_b
                THEN store_file(EmptyDb,
                       FileEntry(<<"b">>, Sha256Hex(SearchTree[<<"b">>].lines), 1))
                ELSE EmptyDb,
                IF with_a THEN ChunkEntries(<<"a">>, va) ELSE <<>>),
              IF with_b THEN ChunkEntries(<<"b">>, vb) ELSE <<>>),
            [embedding_model |-> <<"m">>,
             dim |-> IF with_a \/ with_b THEN dim ELSE 0,
             chunk_size |-> MaxLines, created_at |-> 1])
         : va \in [1..2 -> StoredVectors(dim)], vb \in [1..1 -> StoredVectors(dim)]}
        : with_a \in BOOLEAN, with_b \in BOOLEAN}
      : dim \in 0..2}

\* what the provider answers to the request for the query's embedding
QueryVectors ==
    {<<>>, <<F32One>>, <<F32Zero>>, <<F32Large, F32One>>, <<F32Zero, F32One>>}
Responses ==
    {[ok |-> FALSE, vectors |-> <<>>], [ok |-> TRUE, vectors |-> <<>>]}
    \cup {[ok |-> TRUE, vectors |-> <<v>>] : v \in QueryVectors}
    \cup {[ok |-> TRUE, vectors |-> <<v, <<F32One>>>>] : v \in QueryVectors}
Queries == {<<>>, <<" ", "\t">>, <<"x">>, <<" ", "x">>}
MaxTopK == 3

is_empty_untrimmed(query) == query = <<>>

\* query.trim().is_empty()
is_blank(query) == TrimIsEmpty(query)

\* iterator.zip
Zip(chunks, embeddings) ==
    [i \in 1..(IF Len(chunks) < Len(embeddings) THEN Len(chunks)
                ELSE Len(embeddings)) |->
        [chunk |-> chunks[i], embedding |-> embeddings[i]]]

\* ------------------------------------------------------------ telemetry
CacheableTool == {"ReadFile", "ListDir", "GrepFiles"}

tool_index(tool) ==
    CASE tool = "ReadFile" -> 0
      [] tool = "ListDir" -> 1
      [] tool = "GrepFiles" -> 2

CacheCounters(h, m, st, ev) ==
    [hits |-> h, misses |-> m, stores |-> st, evictions |-> ev]

CacheTelemetryDefault ==
    [overall |-> CacheCounters(0, 0, 0, 0),
     by_tool |-> [i \in 0..2 |-> CacheCounters(0, 0, 0, 0)]]

record_hit(tel, tool) ==
    [overall |-> [tel.overall EXCEPT !.hits = @ + 1],
     by_tool |-> [tel.by_tool EXCEPT ![tool_index(tool)].hits = @ + 1]]

record_miss(tel, tool) ==
    [overall |-> [tel.overall EXCEPT !.misses = @ + 1],
     by_tool |-> [tel.by_tool EXCEPT ![tool_index(tool)].misses = @ + 1]]

record_store(tel, tool) ==
    [overall |-> [tel.overall EXCEPT !.stores = @ + 1],
     by_tool |-> [tel.by_tool EXCEPT ![tool_index(tool)].stores = @ + 1]]

record_eviction(tel, tool) ==
    [overall |-> [tel.overall EXCEPT !.evictions = @ + 1],
     by_tool |-> [tel.by_tool EXCEPT ![tool_index(tool)].evictions = @ + 1]]

\* record_eviction called n times (for _ in 0..evicted)
RECURSIVE record_evictions(_, _, _)
record_evictions(tel, tool, n) ==
    IF n = 0 THEN tel
    ELSE record_evictions(record_eviction(tel, tool), tool, n - 1)

RECURSIVE Gcd(_, _)
Gcd(a, b) == IF b = 0 THEN a ELSE Gcd(b, a % b)

\* Option<f64>: None, or the value of a quotient of two counts, kept as the
\* fraction in lowest terms (two quotients are the same f64 exactly if they
\* are the same fraction, for counts below 2^53)
None == [some |-> FALSE, num |-> 0, den |-> 1]
Quotient(a, b) == [some |-> TRUE, num |-> a \div Gcd(a, b), den |-> b \div Gcd(a, b)]

hit_rate_per_miss(hits, misses) ==
    IF misses = 0 THEN None ELSE Quotient(hits, misses)

hit_rate(hits, misses) ==
    LET lookups == hits + misses
    IN IF lookups = 0 THEN None ELSE Quotient(hits, lookups)

\* CacheableTool::all
CacheableToolAll == <<"ReadFile", "ListDir", "GrepFiles">>

\* CacheTelemetry::snapshot
snapshot(tel) ==
    [hits |-> tel.overall.hits, misses |-> tel.overall.misses,
     stores |-> tel.overall.stores, evictions |-> tel.overall.evictions,
     hit_rate |-> hit_rate(tel.overall.hits, tel.overall.misses),
     by_tool |->
        [i \in 1..Len(CacheableToolAll) |->
            LET tool == CacheableToolAll[i]
                c == tel.by_tool[tool_index(tool)]
            IN [tool |-> tool, hits |-> c.hits, misses |-> c.misses,
                stores |-> c.stores, evictions |-> c.evictions,
                hit_rate |-> hit_rate(c.hits, c.misses)]]]

\* ------------------------------------------------------------ manager
\* no call of the manager made yet; n counts the calls made to the managers
\* of all runs, gets and puts the calls this manager passed to its store
NoCall == [n |-> 0, op |-> "none", key |-> "-", tool |-> "-", res |-> "none", val |-> <<>>,
           store |-> "none", gets |-> 0, puts |-> 0, evicted |-> 0]

\* what CacheStore::get or CacheStore::put handed back to the manager
StoreResult(status, o) ==
    [status |-> status, out |-> o.out, val |-> o.val, evicted |-> o.evicted]

manager_get_raising(r, tel, tool) ==
    IF r.status = "ok" /\ r.out = "hit"
    THEN [res |-> "some", val |-> r.val, telemetry |-> record_hit(tel, tool)]
    ELSE IF r.status = "ok"
    THEN [res |-> "none", val |-> <<>>, telemetry |-> record_miss(tel, tool)]
    ELSE [res |-> "error", val |-> <<>>, telemetry |-> tel]

\* CacheManager::get, once enabled: the match on the store's result
manager_get(r, tel, tool) ==
    IF r.status = "ok" /\ r.out = "hit"
    THEN [res |-> "some", val |-> r.val, telemetry |-> record_hit(tel, tool)]
    ELSE IF r.status = "ok"
    THEN [res |-> "none", val |-> <<>>, telemetry |-> record_miss(tel, tool)]
    ELSE [res |-> "none", val |-> <<>>, telemetry |-> tel]

\* CacheManager::put, once enabled: the match on the store's result
manager_put(r, tel, tool) ==
    IF r.status = "ok"
    THEN [res |-> "unit", val |-> <<>>,
          telemetry |-> record_evictions(record_store(tel, tool), tool,
                                         r.evicted)]
    ELSE [res |-> "unit", val |-> <<>>, telemetry |-> tel]

always_enabled(cfg) == TRUE

\* CacheManager::enabled
is_enabled(cfg) == cfg

Failures(o, p) == (IF o.failed THEN 1 ELSE 0) + (IF p.ok THEN 0 ELSE 1)

\* ------------------------------------------------------------ actions
\* no index directory, no workspace file, nothing asked of the index
InitIndex ==
    /\ tree = NoWorkspace
    /\ db = NoDb
    /\ build = NoBuild
    /\ embedder = NoRequest
    /\ found = NoSearch

InitStore(loads) ==
    /\ pc = "down"
    /\ max_bytes = 0
    /\ index = CacheIndexDefault
    /\ files = [k \in Keys |-> NoFile]
    /\ index_file = Absent
    /\ tmp_file = Absent
    /\ now = 0
    /\ runs = 0
    /\ faults = 0
    /\ load \in loads
    /\ last = NoOp
    /\ lock = "free"
    /\ threads = [t \in Threads |-> Ready]
    /\ held = {}
    /\ enabled = TRUE
    /\ telemetry = CacheTelemetryDefault
    /\ mgr = NoCall

InitWith(loads) ==
    /\ InitStore(loads)
    /\ conf = NoConf
    /\ keyed = NoKeyed
    /\ grepped = NoKeyed
    /\ calc = NoKeyed
    /\ InitIndex

Init == InitWith(Workloads)

\* DiskCacheStore::new
New(mb, readable) ==
    /\ pc = "down"
    /\ runs < load.runs
    /\ runs' = runs + 1
    /\ faults' = faults + (IF readable THEN 0 ELSE 1)
    /\ faults' <= load.faults
    /\ LET loaded == load_index(index_file, readable)
           pruned == prune_expired(loaded, files, now)
       IN /\ index' = recalculate_bytes(pruned.index, pruned.files)
          /\ files' = pruned.files
    /\ max_bytes' = mb
    /\ pc' = "idle"
    /\ last' = [NoOp EXCEPT !.op = "new", !.t = now]
    /\ UNCHANGED <<index_file, tmp_file, now, load>>

\* a call of the store from its first line to its return
Call(op, key, o) ==
    /\ pc = "idle"
    /\ index' = o.index
    /\ files' = o.files
    /\ now' = o.now
    /\ \E p \in (IF o.persist THEN persist_index(o.index) ELSE NotPersisted) :
          /\ index_file' = p.index_file
          /\ tmp_file' = p.tmp_file
          /\ faults' = faults + Failures(o, p)
          /\ faults' <= load.faults
          /\ last' = Op(op, key, o,
                        IF Failures(o, p) = 0 THEN "ok" ELSE "err")
    /\ UNCHANGED <<pc, max_bytes, runs, load>>

Put(key, value, ttl) == \E o \in put(key, value, ttl) : Call("put", key, o)

Get(key) == \E o \in get(key) : Call("get", key, o)

Remove(key) == \E o \in remove(key) : Call("remove", key, o)

Clear == \E o \in clear_all : Call("clear", "-", o)

\* the process is killed (or exits) between two calls: the store object is
\* gone, the directory stays
Crash ==
    /\ pc # "down"
    /\ runs < load.runs
    /\ pc' = "down"
    /\ max_bytes' = 0
    /\ index' = CacheIndexDefault
    /\ tmp_file' \in (IF pc = "write_tmp" THEN {tmp_file, Partial} ELSE {tmp_file})
    /\ last' = NoOp
    /\ UNCHANGED <<files, index_file, now, runs, faults, load>>

\* the process is killed inside a call: after the call's changes to the
\* payload files, and before, during or after the write of the temporary
\* index file (a kill after the rename is a Crash after the call)
Killed(o) ==
    /\ pc = "idle"
    /\ pc' = "down"
    /\ max_bytes' = 0
    /\ index' = CacheIndexDefault
    /\ files' = o.files
    /\ now' = o.now
    /\ tmp_file' \in (IF o.persist
                      THEN {tmp_file, Partial, Serialize(o.index)}
                      ELSE {tmp_file})
    /\ last' = NoOp
    /\ UNCHANGED <<index_file, runs, faults, load>>

KilledInCall ==
    /\ runs < load.runs
    /\ \/ \E k \in load.keys, v \in load.values, d \in load.ttls :
             \E o \in put(k, v, d) : Killed(o)
       \/ \E k \in load.keys : \E o \in get(k) \cup remove(k) : Killed(o)
       \/ \E o \in clear_all : Killed(o)

\* ---- persist_index step by step (SpecSteps)
\* a call up to its call of persist_index
Start(op, key, o) ==
    /\ pc = "idle"
    /\ index' = o.index
    /\ files' = o.files
    /\ now' = o.now
    /\ faults' = faults + (IF o.failed THEN 1 ELSE 0)
    /\ faults' <= load.faults
    /\ pc' = IF o.persist THEN "write_tmp" ELSE "idle"
    /\ last' = Op(op, key, o,
                  IF o.failed THEN "err"
                  ELSE IF o.persist THEN "pending" ELSE "ok")
    /\ UNCHANGED <<max_bytes, index_file, tmp_file, runs, load>>

PutStart(key, value, ttl) ==
    \E o \in put(key, value, ttl) : Start("put", key, o)

GetStart(key) == \E o \in get(key) : Start("get", key, o)

RemoveStart(key) == \E o \in remove(key) : Start("remove", key, o)

ClearStart == \E o \in clear_all : Start("clear", "-", o)

PersistWrite ==
    /\ pc = "write_tmp"
    /\ \E w \in write_tmp(index, tmp_file) :
          /\ tmp_file' = w.tmp_file
          /\ pc' = IF w.ok THEN "rename" ELSE "idle"
          /\ last' = [last EXCEPT !.status = IF w.ok THEN "pending" ELSE "err"]
          /\ faults' = faults + (IF w.ok THEN 0 ELSE 1)
          /\ faults' <= load.faults
    /\ UNCHANGED <<max_bytes, index, files, index_file, now, runs, load>>

PersistRename ==
    /\ pc = "rename"
    /\ \E r \in rename(tmp_file, index_file) :
          /\ index_file' = r.index_file
          /\ tmp_file' = r.tmp_file
          /\ last' = [last EXCEPT !.status = IF r.ok THEN "ok" ELSE "err"]
          /\ faults' = faults + (IF r.ok THEN 0 ELSE 1)
          /\ faults' <= load.faults
    /\ pc' = "idle"
    /\ UNCHANGED <<max_bytes, index, files, now, runs, load>>

Tick ==
    /\ pc \in {"down", "idle"}
    /\ now < MaxTime
    /\ now' = now + 1
    /\ UNCHANGED <<pc, max_bytes, index, files, index_file, tmp_file, runs,
                   faults, load, last>>

\* a payload file is deleted from outside the store
ExternalDelete(key) ==
    /\ pc = "idle"
    /\ files[key].exists
    /\ files' = [files EXCEPT ![key] = NoFile]
    /\ UNCHANGED <<pc, max_bytes, index, index_file, tmp_file, now, runs,
                   faults, load, last>>

\* what a step of the single-threaded store leaves alone
outside == <<threadVars, mgrVars, pureVars, semVars>>

\* ---- the manager (SpecManager)
\* a store call that finds the lock poisoned
lock_poisoned ==
    Outcome(index, files, now, "poisoned", <<>>, ZeroTtl, 0, {}, FALSE, TRUE)

\* CacheManager::new
ManagerNew(mb, en) ==
    /\ New(mb, TRUE)
    /\ enabled' = en
    /\ telemetry' = CacheTelemetryDefault
    /\ mgr' = [NoCall EXCEPT !.n = mgr.n]
    /\ UNCHANGED <<threadVars, pureVars, semVars>>

\* a call that returns before it reaches the store
ManagerSkip(op, key, tool, res) ==
    /\ mgr' = [mgr EXCEPT !.n = @ + 1, !.op = op, !.key = key, !.tool = tool,
                          !.res = res, !.val = <<>>, !.store = "skipped"]
    /\ UNCHANGED <<pc, max_bytes, index, files, index_file, tmp_file, now,
                   runs, faults, load, last, telemetry>>

\* CacheManager::get
ManagerGet(key, tool) ==
    /\ pc = "idle"
    /\ mgr.n < MaxCalls
    /\ IF ~is_enabled(enabled)
       THEN ManagerSkip("get", key, tool, "none")
       ELSE \E o \in get(key) \cup {lock_poisoned} :
              /\ Call("get", key, o)
              /\ LET r == manager_get(StoreResult(last'.status, o),
                                      telemetry, tool)
                 IN /\ telemetry' = r.telemetry
                    /\ mgr' = [mgr EXCEPT !.n = @ + 1, !.op = "get",
                                          !.key = key, !.tool = tool, !.res = r.res,
                                          !.val = r.val,
                                          !.store = last'.status,
                                          !.gets = @ + 1]
    /\ UNCHANGED <<enabled, threadVars, pureVars, semVars>>

\* CacheManager::put
ManagerPut(key, value, ttl, tool) ==
    /\ pc = "idle"
    /\ mgr.n < MaxCalls
    /\ IF ~is_enabled(enabled)
       THEN ManagerSkip("put", key, tool, "unit")
       ELSE \E o \in put(key, value, ttl)
                        \cup (IF max_bytes = 0 THEN {} ELSE {lock_poisoned}) :
              /\ Call("put", key, o)
              /\ LET r == manager_put(StoreResult(last'.status, o),
                                      telemetry, tool)
                 IN /\ telemetry' = r.telemetry
                    /\ mgr' = [mgr EXCEPT !.n = @ + 1, !.op = "put",
                                          !.key = key, !.tool = tool, !.res = r.res,
                                          !.val = r.val,
                                          !.store = last'.status,
                                          !.puts = @ + 1,
                                          !.evicted =
                                             @ + (IF last'.status = "ok"
                                                  THEN o.evicted ELSE 0)]
    /\ UNCHANGED <<enabled, threadVars, pureVars, semVars>>

\* CacheManager::clear
ManagerClear ==
    /\ mgr.n < MaxCalls
    /\ \E o \in clear_all \cup {lock_poisoned} : Call("clear", "-", o)
    /\ mgr' = [mgr EXCEPT !.n = @ + 1, !.op = "clear", !.key = "-",
                          !.tool = "-",
                          !.res = "unit", !.val = <<>>,
                          !.store = last'.status]
    /\ UNCHANGED <<enabled, telemetry, threadVars, pureVars, semVars>>

ManagerLoad ==
    [keys |-> {"a", "b"}, values |-> {<<1, 2>>},
     ttls |-> {[secs |-> MaxTtlSecs, nanos |-> 0]},
     budgets |-> {MaxBudget - 1}, runs |-> MaxRuns, faults |-> MaxFaults]

InitManager == InitWith({ManagerLoad})

NextManager ==
    \/ \E mb \in load.budgets, en \in BOOLEAN : ManagerNew(mb, en)
    \/ \E k \in load.keys, tool \in CacheableTool : ManagerGet(k, tool)
    \/ \E k \in load.keys, v \in load.values, d \in load.ttls,
          tool \in CacheableTool : ManagerPut(k, v, d, tool)
    \/ ManagerClear
    \/ Crash /\ UNCHANGED outside
    \/ Tick /\ UNCHANGED outside

SpecManager == InitManager /\ [][NextManager]_vars

\* ---- the configuration (SpecConfig)
InitConfig ==
    /\ InitStore({ManagerLoad})
    /\ conf \in {[NoConf EXCEPT !.pc = "toml", !.toml = cache] :
                     cache \in CacheConfigToml}
    /\ keyed = NoKeyed
    /\ grepped = NoKeyed
    /\ calc = NoKeyed
    /\ InitIndex

\* CacheConfig::new
ConfigNew ==
    /\ conf.pc = "toml"
    /\ conf' = [conf EXCEPT !.pc = "config",
                            !.config = CacheConfigNew(conf.toml)]

\* CacheConfig::ttl_for
TtlFor(tool) ==
    /\ conf.pc \in {"config", "ttl"}
    /\ conf' = [conf EXCEPT !.pc = "ttl", !.tool = tool,
                            !.ttl = ttl_for(conf.config, tool)]

NextConfig ==
    \/ ConfigNew /\ UNCHANGED <<pc, max_bytes, index, files, index_file,
                                 tmp_file, now, runs, faults, load, last,
                                 threadVars, mgrVars, keyed, grepped,
                                 calc, semVars>>
    \/ (\E tool \in CacheableTool : TtlFor(tool))
          /\ UNCHANGED <<pc, max_bytes, index, files, index_file, tmp_file,
                         now, runs, faults, load, last, threadVars, mgrVars,
                         keyed, grepped, calc, semVars>>

SpecConfig == InitConfig /\ [][NextConfig]_vars

\* ---- build_tool_cache_key (SpecKeys)
StoreIdle ==
    UNCHANGED <<pc, max_bytes, index, files, index_file, tmp_file, now, runs,
                faults, load, last, threadVars, mgrVars, calc, semVars>>

\* two calls with the same inputs: arguments of every shape under one
\* stamp, or one argument object under every stamp
InitKeys ==
    /\ InitStore({ManagerLoad})
    /\ conf = NoConf
    /\ grepped = NoKeyed
    /\ calc = NoKeyed
    /\ InitIndex
    /\ \E a \in {ToolInput(args, PathStamp(1, 2)) : args \in Args}
              \cup {ToolInput(JsonObject(<<Member(<<"a">>, JsonNumber(1))>>),
                              PathStamp(m, sz)) :
                       m \in 0..MaxStamp, sz \in 0..MaxStamp} :
          keyed = [pc |-> "inputs", a |-> a, b |-> a,
                   key_a |-> NoKey, key_b |-> NoKey]

\* the caller of the second call builds the same arguments in another order
Rearrange ==
    /\ keyed.pc = "inputs"
    /\ \E args \in Swaps(keyed.b.args) : keyed' = [keyed EXCEPT !.b.args = args]
    /\ UNCHANGED <<conf, grepped>>

\* the target has another stamp at the second call
Restamp(mtime_nanos, size_bytes) ==
    /\ keyed.pc = "inputs"
    /\ keyed.b.stamp = keyed.a.stamp
    /\ keyed.a.args.kind = "obj" /\ Len(keyed.a.args.items) = 1
    /\ keyed' = [keyed EXCEPT !.b.stamp = PathStamp(mtime_nanos, size_bytes)]
    /\ UNCHANGED <<conf, grepped>>

\* build_tool_cache_key, for both calls
BuildToolKeys ==
    /\ keyed.pc = "inputs"
    /\ keyed' = [keyed EXCEPT
                    !.pc = "built",
                    !.key_a = build_tool_cache_key(
                                 keyed.a.tool_name, keyed.a.args,
                                 keyed.a.workspace_root, keyed.a.target_path,
                                 keyed.a.stamp),
                    !.key_b = build_tool_cache_key(
                                 keyed.b.tool_name, keyed.b.args,
                                 keyed.b.workspace_root, keyed.b.target_path,
                                 keyed.b.stamp)]
    /\ UNCHANGED <<conf, grepped>>

NextKeys ==
    \/ Rearrange /\ StoreIdle
    \/ (\E m \in 0..MaxStamp, sz \in 0..MaxStamp : Restamp(m, sz)) /\ StoreIdle
    \/ BuildToolKeys /\ StoreIdle

SpecKeys == InitKeys /\ [][NextKeys]_vars

\* ---- build_grep_cache_key (SpecGrep)
InitGrep ==
    /\ InitStore({ManagerLoad})
    /\ conf = NoConf
    /\ keyed = NoKeyed
    /\ calc = NoKeyed
    /\ InitIndex
    /\ \E a \in {GrepCacheKeyInputs(include, limit, repo_state) :
                    include \in {NoString, SomeOf(<<"x">>)},
                    limit \in {1, MaxStamp},
                    repo_state \in RepoStates} :
          grepped = [pc |-> "inputs", a |-> a, b |-> a,
                     key_a |-> NoKey, key_b |-> NoKey]

\* detect_repo_state finds another state at the second call
RepoChange(repo_state) ==
    /\ grepped.pc = "inputs"
    /\ grepped.b.repo_state = grepped.a.repo_state
    /\ grepped' = [grepped EXCEPT !.b.repo_state = repo_state]
    /\ UNCHANGED <<conf, keyed>>

\* build_grep_cache_key, for both calls
BuildGrepKeys ==
    /\ grepped.pc = "inputs"
    /\ grepped' = [grepped EXCEPT
                      !.pc = "built",
                      !.key_a = build_grep_cache_key(grepped.a),
                      !.key_b = build_grep_cache_key(grepped.b)]
    /\ UNCHANGED <<conf, keyed>>

NextGrep ==
    \/ (\E repo_state \in RepoStates : RepoChange(repo_state)) /\ StoreIdle
    \/ BuildGrepKeys /\ StoreIdle

SpecGrep == InitGrep /\ [][NextGrep]_vars

\* ---- the TTL of a grep_files result (SpecGrepTtl)
InitGrepTtl ==
    /\ InitStore({ManagerLoad})
    /\ conf = NoConf
    /\ keyed = NoKeyed
    /\ calc = NoKeyed
    /\ InitIndex
    /\ \E n \in 0..MaxGrepTtlSecs, repo_state \in RepoStates :
          grepped = [pc |-> "detected", configured |-> from_secs(n),
                     repo_state |-> repo_state, ttl |-> ZeroTtl,
                     ttl_secs |-> 0]

\* GrepFilesHandler::handle, from cache_ttl_for_repo_state to the put of the
\* result: the entry is put with cache_ttl, of which the store keeps the
\* whole seconds
GrepPut ==
    /\ grepped.pc = "detected"
    /\ LET cache_ttl == cache_ttl_for_repo_state(grepped.configured,
                                                 grepped.repo_state)
       IN grepped' = [grepped EXCEPT !.pc = "stored", !.ttl = cache_ttl,
                                     !.ttl_secs = as_secs(cache_ttl)]
    /\ UNCHANGED <<conf, keyed>>

NextGrepTtl == GrepPut /\ StoreIdle

SpecGrepTtl == InitGrepTtl /\ [][NextGrepTtl]_vars

\* ---- SemanticIndex::build, a step at a time
CacheIdle ==
    UNCHANGED <<pc, max_bytes, index, files, index_file, tmp_file, now, runs,
                faults, load, last, threadVars, mgrVars, pureVars>>

\* SemanticIndex::new: the configuration is fixed for the index's life
InitBuild ==
    /\ InitStore({ManagerLoad})
    /\ conf = NoConf /\ keyed = NoKeyed /\ grepped = NoKeyed /\ calc = NoKeyed
    /\ tree = NoWorkspace /\ db = NoDb
    /\ embedder = NoRequest /\ found = NoSearch
    /\ \E is_on \in BOOLEAN :
          build = [NoBuild EXCEPT !.config = SemanticIndexConfig(is_on, MaxLines)]

\* build returns an error: whatever is in the store stays
BuildFailed(why) ==
    [build EXCEPT !.pc = "idle", !.result = "err", !.error = why]

\* build up to the walk of the workspace: the enabled test, the store opened
\* with StoreMode::Reset, the embedding client, created_at, collect_files.
\* The workspace is whatever it is by now; the walk lists its files in the
\* order of the file system.
BuildStart ==
    /\ build.pc = "idle"
    /\ build.created_at < MaxBuilds
    /\ UNCHANGED <<embedder, found>>
    /\ IF ~build.config.enabled
       THEN /\ build' = [BuildFailed("disabled") EXCEPT !.stats = NoStats]
            /\ UNCHANGED <<tree, db>>
       ELSE \E workspace \in Trees, fault \in {"none", "open", "client", "walk"} :
               LET begun == [build EXCEPT !.stats = NoStats,
                                          !.replaced = {r.path : r \in db.files},
                                          !.embedding_dim = NoneOf,
                                          !.counts = NoBuild.counts,
                                          !.todo = <<>>, !.pending = <<>>]
               IN /\ tree' = workspace
                  /\ IF fault = "open"
                     THEN /\ db' = db
                          /\ build' = [begun EXCEPT !.result = "err",
                                                    !.error = "open"]
                     ELSE /\ db' = open(db, "Reset").db
                          /\ IF fault # "none"
                             THEN build' = [begun EXCEPT !.result = "err",
                                                         !.error = fault]
                             ELSE \E order \in Orders({q \in Paths :
                                               workspace[q].kind # "absent"}) :
                                     build' = [begun EXCEPT
                                                 !.pc = "files",
                                                 !.created_at = @ + 1,
                                                 !.todo = order,
                                                 !.result = "none",
                                                 !.error = "none"]

\* the body of the loop over the files, down to the test of the number of
\* embeddings: the file is skipped, or its row is stored and its chunks are
\* sent to the provider in one request
BuildFile ==
    /\ build.pc = "files"
    /\ build.todo # <<>>
    /\ UNCHANGED <<tree, found>>
    /\ LET path == Head(build.todo)
           file == tree[path]
           chunks == chunk_lines(file.lines, build.config.max_lines)
           skipped == [build EXCEPT !.todo = Tail(@)]
       IN IF \/ file.kind # "text"
             \/ file.lines = <<>>
             \/ chunks = <<>>
          THEN /\ build' = skipped
               /\ UNCHANGED <<db, embedder>>
          ELSE \E store_fails \in BOOLEAN :
                  IF store_fails
                  THEN /\ build' = BuildFailed("store_file")
                       /\ UNCHANGED <<db, embedder>>
                  ELSE /\ db' = store_file(db,
                                    FileEntry(path, Sha256Hex(file.lines),
                                              Len(JoinLines(file.lines))))
                       /\ embedder' = [embedder EXCEPT !.requests = @ + 1]
                       /\ \E answered \in BOOLEAN,
                             n \in {SatSub(Len(chunks), 1), Len(chunks),
                                    Len(chunks) + 1} :
                             \E embeddings \in [1..n -> Vectors] :
                                LET got == [chunks |-> Len(chunks),
                                            embeddings |-> Len(embeddings)]
                                IN IF ~answered
                                   THEN build' = BuildFailed("embed")
                                   ELSE IF response_mismatch(embeddings, chunks)
                                   THEN build' = [BuildFailed("embedding response mismatch")
                                                     EXCEPT !.counts = got]
                                   ELSE build' = [build EXCEPT
                                           !.pc = "chunks",
                                           !.file = path,
                                           !.counts = got,
                                           !.pending = Zip(chunks, embeddings)]

\* the body of the loop over a file's chunks and embeddings: the dimension is
\* tested, then the chunk row is stored
BuildChunk ==
    /\ build.pc = "chunks"
    /\ UNCHANGED <<tree, embedder, found>>
    /\ LET chunk == Head(build.pending).chunk
           embedding == Head(build.pending).embedding
           text_hash == Sha256Hex(chunk.text)
           rest == Tail(build.pending)
       IN IF dimension_changed(build.embedding_dim, embedding)
          THEN /\ build' = BuildFailed("embedding dimension changed")
               /\ db' = db
          ELSE \E store_fails \in BOOLEAN :
                  IF store_fails
                  THEN /\ build' = [BuildFailed("store_chunk") EXCEPT
                                       !.embedding_dim = SomeOf(Len(embedding))]
                       /\ db' = db
                  ELSE /\ db' = store_chunk(db,
                                   [file_path |-> build.file,
                                    chunk_id |-> chunk_id(build.file,
                                                     chunk.start_line,
                                                     chunk.end_line, text_hash),
                                    start_line |-> chunk.start_line,
                                    end_line |-> chunk.end_line,
                                    text_hash |-> text_hash,
                                    embedding |-> embedding,
                                    updated_at |-> build.created_at])
                       /\ build' = [build EXCEPT
                                      !.embedding_dim = SomeOf(Len(embedding)),
                                      !.pending = rest,
                                      !.pc = IF rest = <<>> THEN "files" ELSE @,
                                      !.todo = IF rest = <<>> THEN Tail(@) ELSE @]

\* after the loop: the meta row, then the statistics of the store
BuildFinish ==
    /\ build.pc = "files"
    /\ build.todo = <<>>
    /\ UNCHANGED <<tree, embedder, found>>
    /\ \E store_fails \in BOOLEAN :
          IF store_fails
          THEN /\ build' = BuildFailed("store_meta")
               /\ db' = db
          ELSE LET stored == store_meta(db,
                                [embedding_model |-> <<"m">>,
                                 dim |-> unwrap_or(build.embedding_dim, 0),
                                 chunk_size |-> build.config.max_lines,
                                 created_at |-> build.created_at])
               IN /\ db' = stored
                  /\ build' = [build EXCEPT !.pc = "idle", !.result = "ok",
                                            !.stats = index_stats(stored)]

\* the process ends in the middle of a build
BuildKilled ==
    /\ build.pc \in {"files", "chunks"}
    /\ build' = [build EXCEPT !.pc = "idle", !.result = "killed"]
    /\ UNCHANGED <<tree, db, embedder, found>>

NextBuild ==
    \/ BuildStart /\ CacheIdle
    \/ BuildFile /\ CacheIdle
    \/ BuildChunk /\ CacheIdle
    \/ BuildFinish /\ CacheIdle
    \/ BuildKilled /\ CacheIdle

SpecBuild == InitBuild /\ [][NextBuild]_vars

\* ---- chunk_lines, on every file of up to MaxFileLines lines
RECURSIVE SeqsUpTo(_, _)
SeqsUpTo(set, n) ==
    IF n = 0 THEN {<<>>}
    ELSE LET shorter == SeqsUpTo(set, n - 1)
         IN shorter \cup {Append(q, x) : q \in {r \in shorter : Len(r) = n - 1},
                                          x \in set}

FileLines == {<<>>, <<" ", "\t">>, <<"x">>}

IndexIdle ==
    UNCHANGED <<pc, max_bytes, index, files, index_file, tmp_file, now, runs,
                faults, load, last, threadVars, mgrVars, conf, keyed, grepped,
                semVars>>

InitChunks ==
    /\ InitStore({ManagerLoad})
    /\ conf = NoConf /\ keyed = NoKeyed /\ grepped = NoKeyed
    /\ InitIndex
    /\ \E lines \in SeqsUpTo(FileLines, MaxFileLines),
          max_lines \in 0..MaxChunkLines :
          calc = [pc |-> "read", lines |-> lines, max_lines |-> max_lines,
                  chunks |-> <<>>]

ChunkLines ==
    /\ calc.pc = "read"
    /\ calc' = [calc EXCEPT !.pc = "chunked",
                            !.chunks = chunk_lines(calc.lines, calc.max_lines)]

NextChunks == ChunkLines /\ IndexIdle

SpecChunks == InitChunks /\ [][NextChunks]_vars

\* ---- encode_embedding and decode_embedding
F32Values ==
    {F32Zero, F32One, F32MinusOne, F32Large, F32Huge, F32NaN, F32Odd}
BlobBytes == {0, 63, 128}

InitCodec ==
    /\ InitStore({ManagerLoad})
    /\ conf = NoConf /\ keyed = NoKeyed /\ grepped = NoKeyed
    /\ InitIndex
    /\ \/ \E embedding \in SeqsUpTo(F32Values, MaxVectorLen) :
             calc = [pc |-> "embedding", embedding |-> embedding,
                     bytes |-> <<>>,
                     decoded |-> [ok |-> FALSE, values |-> <<>>]]
       \/ \E bytes \in SeqsUpTo(BlobBytes, MaxBlobLen) :
             calc = [pc |-> "blob", embedding |-> <<>>, bytes |-> bytes,
                     decoded |-> [ok |-> FALSE, values |-> <<>>]]

\* an embedding is encoded, as store_chunk does, and the blob decoded, as
\* list_embeddings does
Encode ==
    /\ calc.pc = "embedding"
    /\ LET bytes == encode_embedding(calc.embedding)
       IN calc' = [calc EXCEPT !.pc = "encoded", !.bytes = bytes,
                               !.decoded = decode_embedding(bytes)]

\* a blob of any length is decoded
Decode ==
    /\ calc.pc = "blob"
    /\ calc' = [calc EXCEPT !.pc = "decoded",
                            !.decoded = decode_embedding(calc.bytes)]

NextCodec ==
    \/ Encode /\ IndexIdle
    \/ Decode /\ IndexIdle

SpecCodec == InitCodec /\ [][NextCodec]_vars

\* ---- SemanticIndex::stats and VectorStore::stats
\* the stores a build leaves when it stops before the meta row: the file rows
\* with all their chunk rows, with those of the first chunks only, or with none
MetaLessStores ==
    {EmptyDb}
    \cup {[s EXCEPT !.meta = <<>>,
                    !.chunks = {r \in @ : r.start_line <= upto}]
          : s \in BuiltStores, upto \in {0, 1, 3}}

InitStats ==
    /\ InitStore({ManagerLoad})
    /\ conf = NoConf /\ keyed = NoKeyed /\ grepped = NoKeyed
    /\ tree = SearchTree
    /\ db \in BuiltStores \cup MetaLessStores \cup {NoDb}
    /\ build = NoBuild /\ embedder = NoRequest /\ found = NoSearch
    /\ calc = [pc |-> "none", ok |-> FALSE, stats |-> NoStats]

\* a store is opened, as SemanticIndex::stats opens it or as a caller of
\* VectorStore::open does, and asked for its stats
Stats ==
    /\ calc.pc = "none"
    /\ \E mode \in {"OpenExisting", "CreateOrOpen"} :
          LET opened == open(db, mode)
          IN /\ db' = opened.db
             /\ calc' = [pc |-> mode, ok |-> opened.ok,
                         stats |-> IF opened.ok THEN index_stats(opened.db)
                                   ELSE NoStats]
    /\ UNCHANGED <<tree, build, embedder, found>>

NextStats ==
    Stats /\ UNCHANGED <<pc, max_bytes, index, files, index_file, tmp_file,
                         now, runs, faults, load, last, threadVars, mgrVars,
                         conf, keyed, grepped>>

SpecStats == InitStats /\ [][NextStats]_vars

\* ---- run_rg_search
\* what becomes of the rg process: it cannot be started, or it runs and ends
\* with a status code or by a signal, having written stdout and stderr
RgRuns ==
    {[launched |-> FALSE, took |-> 0, code |-> NoneOf, stdout |-> <<>>,
      stderr |-> <<>>, error |-> <<"not found">>]}
    \cup {[launched |-> TRUE, took |-> took, code |-> code, stdout |-> stdout,
           stderr |-> stderr, error |-> <<>>]
          : took \in {0, COMMAND_TIMEOUT, COMMAND_TIMEOUT + 1},
            code \in {NoneOf, SomeOf(0), SomeOf(1), SomeOf(2)},
            stdout \in SeqsUpTo({"a", "\n", BadByte}, MaxStdout),
            stderr \in {<<>>, <<"e">>}}

InitRg ==
    /\ InitStore({ManagerLoad})
    /\ conf = NoConf /\ keyed = NoKeyed /\ grepped = NoKeyed
    /\ InitIndex
    /\ \E run \in RgRuns, limit \in 1..MaxLimit :
          calc = [pc |-> "spawned", run |-> run, limit |-> limit,
                  result |-> RgErr(<<>>)]

RgSearch ==
    /\ calc.pc = "spawned"
    /\ calc' = [calc EXCEPT !.pc = "searched",
                            !.result = run_rg_search(calc.run, calc.limit)]

NextRg == RgSearch /\ IndexIdle

SpecRg == InitRg /\ [][NextRg]_vars

\* ---- read_snippet_lines and format_search_results
\* the file of a hit as it is when the snippet is read, and the line range
\* of the hit, which is that of a chunk: 1 <= start_line <= end_line
SnippetFiles ==
    {[readable |-> FALSE, lines |-> <<>>]}
    \cup {[readable |-> TRUE, lines |-> lines]
          : lines \in SeqsUpTo({<<>>, <<"a", "b">>, <<"é", "é">>},
                               MaxSnippetLines)}

InitSnippet ==
    /\ InitStore({ManagerLoad})
    /\ conf = NoConf /\ keyed = NoKeyed /\ grepped = NoKeyed
    /\ InitIndex
    /\ \E file \in SnippetFiles, start_line \in 1..(MaxSnippetLines + 1),
          end_line \in 1..(MaxSnippetLines + 1), max_chars \in 0..MaxChars :
          /\ start_line <= end_line
          /\ calc = [pc |-> "hit", file |-> file, start_line |-> start_line,
                     end_line |-> end_line, max_chars |-> max_chars,
                     ok |-> FALSE, snippet |-> <<>>, shown |-> <<>>]

\* build_search_results and format_search_results for one hit
Snippet ==
    /\ calc.pc = "hit"
    /\ LET read == read_snippet_lines(calc.file, calc.start_line,
                                      calc.end_line, calc.max_chars)
       IN calc' = [calc EXCEPT !.pc = "shown", !.ok = read.ok,
                               !.snippet = read.snippet,
                               !.shown = format_snippet(read.snippet,
                                                        calc.end_line)]

NextSnippet == Snippet /\ IndexIdle

SpecSnippet == InitSnippet /\ [][NextSnippet]_vars

\* ---- GrepFilesHandler::handle and the cache (SpecHandle)
CachedGrepOutput(content, success) == [content |-> content, success |-> success]

NoMatches == <<"No matches found.">>

\* the texts a CachedGrepOutput of the model can hold
Contents ==
    {JoinLines(lines) : lines \in SeqsUpTo({<<"a">>}, MaxLimit)}
    \cup {NoMatches}

CachedOutputs ==
    {CachedGrepOutput(content, success) :
        content \in Contents,
        success \in {NoBool, SomeOf(TRUE), SomeOf(FALSE)}}

\* serde_json::to_vec(&cached): {"content":"...","success":true}
to_vec(cached) ==
    <<"{">> \o Quoted(<<"content">>) \o <<":">> \o Quoted(cached.content)
    \o <<",">> \o Quoted(<<"success">>) \o <<":">>
    \o (IF ~cached.success.some THEN <<"n", "u", "l", "l">>
        ELSE IF cached.success.v THEN <<"t", "r", "u", "e">>
        ELSE <<"f", "a", "l", "s", "e">>)
    \o <<"}">>

NoOutput == [some |-> FALSE, v |-> CachedGrepOutput(<<>>, NoBool)]

\* serde_json::from_slice::<CachedGrepOutput>: the bytes parse exactly if
\* they are the JSON text of an output
from_slice(bytes) ==
    LET parsed == {c \in CachedOutputs : to_vec(c) = bytes}
    IN IF parsed = {} THEN NoOutput ELSE SomeOf(CHOOSE c \in parsed : TRUE)

\* fn decode_cached_output
decode_cached_output(bytes) ==
    IF from_slice(bytes).some THEN from_slice(bytes)
    ELSE IF \E i \in 1..Len(bytes) : bytes[i] = BadByte THEN NoOutput
    ELSE SomeOf(CachedGrepOutput(bytes, SomeOf(TRUE)))

\* what becomes of the rg process of a call
HandleRuns ==
    {r \in RgRuns :
        /\ r.stderr = <<>>
        /\ IF r.launched /\ r.took = 0 /\ r.code = SomeOf(0)
           THEN r.stdout \in {<<>>, <<"a">>, <<"a", "\n", "a">>}
           ELSE /\ r.stdout = <<>>
                /\ r.took \in {0, COMMAND_TIMEOUT + 1}
                /\ r.took > COMMAND_TIMEOUT => r.code = SomeOf(0)}

NoRun == CHOOSE r \in HandleRuns : ~r.launched

\* no call of the handler made yet
NoHandle ==
    [pc |-> "idle", n |-> 0, configured |-> ZeroTtl, key |-> "-",
     keyed |-> FALSE, repo_state |-> NoRepoState, lookup |-> "none",
     runs |-> 0, run |-> NoRun, result |-> "none",
     output |-> CachedGrepOutput(<<>>, NoBool), put |-> FALSE,
     put_key |-> "-", put_value |-> <<>>, put_ttl |-> ZeroTtl]

\* entries of the cache directory that no call of this handler encoded: a
\* raw text, and bytes that are no text
HandleLoad ==
    [keys |-> {"a"}, values |-> {<<"a">>, <<BadByte>>},
     ttls |-> {[secs |-> MaxTtlSecs, nanos |-> 0]},
     budgets |-> {8 * (MaxBudget + 1)}, runs |-> 1, faults |-> MaxFaults]

InitHandle ==
    /\ InitStore({HandleLoad})
    /\ conf = NoConf /\ keyed = NoKeyed /\ calc = NoKeyed
    /\ InitIndex
    /\ \E n \in {1, MaxGrepTtlSecs} :
          grepped = [NoHandle EXCEPT !.configured = from_secs(n)]

StoreKept ==
    UNCHANGED <<pc, max_bytes, index, files, index_file, tmp_file, now, runs,
                faults, load, last, telemetry>>

\* GrepFilesHandler::handle down to the cached answer: the key is made only
\* when the cache is enabled, and with a key the manager is asked
HandleLookup(key, repo_state) ==
    /\ pc = "idle"
    /\ grepped.pc = "idle"
    /\ grepped.n < MaxCalls
    /\ LET begun == [grepped EXCEPT !.n = @ + 1, !.key = key,
                                    !.keyed = is_enabled(enabled),
                                    !.repo_state = repo_state,
                                    !.runs = 0, !.run = NoRun,
                                    !.result = "none", !.put = FALSE,
                                    !.put_key = "-", !.put_value = <<>>,
                                    !.put_ttl = ZeroTtl,
                                    !.output = NoHandle.output]
       IN IF ~is_enabled(enabled)
          THEN /\ grepped' = [begun EXCEPT !.pc = "search", !.lookup = "off"]
               /\ StoreKept
          ELSE \E o \in get(key) \cup {lock_poisoned} :
                 /\ Call("get", key, o)
                 /\ LET r == manager_get(StoreResult(last'.status, o),
                                         telemetry, "GrepFiles")
                        decoded == decode_cached_output(r.val)
                    IN /\ telemetry' = r.telemetry
                       /\ grepped' =
                            IF r.res = "some" /\ decoded.some
                            THEN [begun EXCEPT !.lookup = "hit",
                                               !.result = "ok",
                                               !.output = decoded.v]
                            ELSE [begun EXCEPT
                                    !.pc = "search",
                                    !.lookup = IF r.res = "some"
                                               THEN "undecodable" ELSE "miss"]
    /\ UNCHANGED <<enabled, mgr, threadVars, conf, keyed, calc, semVars>>

\* GrepFilesHandler::handle from run_rg_search on: the search, the output,
\* and with a key the put of the encoded output under cache_ttl
HandleSearch(run) ==
    /\ pc = "idle"
    /\ grepped.pc = "search"
    /\ LET searched == run_rg_search(run, MaxLimit)
           cached == IF searched.results = <<>>
                     THEN CachedGrepOutput(NoMatches, SomeOf(FALSE))
                     ELSE CachedGrepOutput(JoinLines(searched.results),
                                           SomeOf(TRUE))
           cache_ttl == cache_ttl_for_repo_state(grepped.configured,
                                                 grepped.repo_state)
           done == [grepped EXCEPT !.pc = "idle", !.runs = @ + 1,
                                   !.run = run]
       IN IF ~searched.ok
          THEN /\ grepped' = [done EXCEPT
                                !.result = "err",
                                !.output = CachedGrepOutput(searched.message,
                                                            NoBool)]
               /\ StoreKept
          ELSE IF ~grepped.keyed
          THEN /\ grepped' = [done EXCEPT !.result = "ok", !.output = cached]
               /\ StoreKept
          ELSE \E o \in put(grepped.key, to_vec(cached), cache_ttl)
                          \cup (IF max_bytes = 0 THEN {}
                                ELSE {lock_poisoned}) :
                 /\ Call("put", grepped.key, o)
                 /\ telemetry' = manager_put(StoreResult(last'.status, o),
                                             telemetry, "GrepFiles").telemetry
                 /\ grepped' = [done EXCEPT !.result = "ok",
                                            !.output = cached, !.put = TRUE,
                                            !.put_key = grepped.key,
                                            !.put_value = to_vec(cached),
                                            !.put_ttl = cache_ttl]
    /\ UNCHANGED <<enabled, mgr, threadVars, conf, keyed, calc, semVars>>

NextHandle ==
    \/ \E mb \in load.budgets, en \in BOOLEAN : ManagerNew(mb, en)
    \/ \E k \in load.keys,
          repo_state \in {NoRepoState,
                          SomeOf(RepoState(SomeOf(<<"m">>), NoneOf))} :
          HandleLookup(k, repo_state)
    \/ \E run \in HandleRuns : HandleSearch(run)
    \/ \E k \in load.keys, v \in load.values, d \in load.ttls :
          mgr.n = 0 /\ ManagerPut(k, v, d, "GrepFiles")
    \/ Tick /\ UNCHANGED outside

SpecHandle == InitHandle /\ [][NextHandle]_vars

\* ---- build_tool_cache_key over tools and paths (SpecKeyPaths)
ToolNames ==
    {<<"r", "e", "a", "d", "_", "f", "i", "l", "e">>,
     <<"l", "i", "s", "t", "_", "d", "i", "r">>}

\* paths of a Unix file system, where a backslash and a bar are characters
\* of a file name like any other
PathNames ==
    {<<"/", "w">>, <<"/", "w", "/", "a">>, <<"/", "w", "\\", "a">>,
     <<"/", "w", "|", "a">>, <<"a">>, <<"a", "|", "a">>}

\* two requests with the same arguments and stamp
InitKeyPaths ==
    /\ InitStore({ManagerLoad})
    /\ conf = NoConf
    /\ grepped = NoKeyed
    /\ calc = NoKeyed
    /\ InitIndex
    /\ \E tool_name \in ToolNames, workspace_root \in PathNames,
          target_path \in PathNames :
          LET a == [ToolInput(JsonObject(<<Member(<<"a">>, JsonNumber(1))>>),
                              PathStamp(1, 2))
                      EXCEPT !.tool_name = tool_name,
                             !.workspace_root = workspace_root,
                             !.target_path = target_path]
          IN keyed = [pc |-> "inputs", a |-> a, b |-> a,
                      key_a |-> NoKey, key_b |-> NoKey]

\* the second request names another tool, workspace or target
Retarget(tool_name, workspace_root, target_path) ==
    /\ keyed.pc = "inputs"
    /\ keyed.b = keyed.a
    /\ keyed' = [keyed EXCEPT !.b.tool_name = tool_name,
                              !.b.workspace_root = workspace_root,
                              !.b.target_path = target_path]
    /\ UNCHANGED <<conf, grepped>>

NextKeyPaths ==
    \/ (\E tool_name \in ToolNames, workspace_root \in PathNames,
           target_path \in PathNames :
           Retarget(tool_name, workspace_root, target_path)) /\ StoreIdle
    \/ BuildToolKeys /\ StoreIdle

SpecKeyPaths == InitKeyPaths /\ [][NextKeyPaths]_vars

\* ---- CacheTelemetry under threads
\* Each counter is an AtomicU64 of its own: a record_* call adds to the
\* overall counter and then to the tool's, snapshot loads the overall
\* counters and then each tool's, and other threads run in between.
CounterFields == {"hits", "misses", "stores", "evictions"}

\* CacheCounters::record_hit / record_miss / record_store / record_eviction:
\* fetch_add(1) on the one counter
counters_record(counters, field) == [counters EXCEPT ![field] = @ + 1]

\* CacheCounters::snapshot: the four counters loaded
counters_snapshot(counters) ==
    CacheCounters(counters.hits, counters.misses, counters.stores,
                  counters.evictions)

\* a thread outside CacheTelemetry: read is what a snapshot has loaded so
\* far, snap the last snapshot returned to the thread, snaps how many were
Outside ==
    [pc |-> "ready", field |-> "hits", tool |-> "ReadFile",
     read |-> CacheTelemetryDefault, at |-> 0,
     snap |-> snapshot(CacheTelemetryDefault), snaps |-> 0]

InitTelemetry ==
    /\ InitStore({ManagerLoad})
    /\ conf = NoConf /\ keyed = NoKeyed /\ grepped = NoKeyed
    /\ InitIndex
    /\ calc = [recorded |-> 0, at |-> [t \in Threads |-> Outside]]

\* CacheTelemetry::record_*, first line: self.overall.record_*()
RecordOverall(t, field, tool) ==
    /\ calc.at[t].pc = "ready"
    /\ calc.recorded < MaxRecords
    /\ telemetry' = [telemetry EXCEPT
                       !.overall = counters_record(@, field)]
    /\ calc' = [calc EXCEPT !.recorded = @ + 1,
                            !.at[t].pc = "by_tool",
                            !.at[t].field = field,
                            !.at[t].tool = tool]

\* CacheTelemetry::record_*, second line:
\* self.by_tool[tool_index(tool)].record_*()
RecordByTool(t) ==
    /\ calc.at[t].pc = "by_tool"
    /\ telemetry' = [telemetry EXCEPT
                       !.by_tool[tool_index(calc.at[t].tool)] =
                           counters_record(@, calc.at[t].field)]
    /\ calc' = [calc EXCEPT !.at[t].pc = "ready"]

\* CacheTelemetry::snapshot, first line: self.overall.snapshot()
SnapshotOverall(t) ==
    /\ calc.at[t].pc = "ready"
    /\ calc.at[t].snaps < MaxRecords
    /\ calc' = [calc EXCEPT
                  !.at[t].pc = "snapshot",
                  !.at[t].at = 1,
                  !.at[t].read = [CacheTelemetryDefault EXCEPT !.overall =
                                     counters_snapshot(telemetry.overall)]]
    /\ UNCHANGED telemetry

\* CacheTelemetry::snapshot, the loop over CacheableTool::all(): one tool's
\* counters loaded; after the last, the snapshot is returned
SnapshotByTool(t) ==
    /\ calc.at[t].pc = "snapshot"
    /\ LET i == tool_index(CacheableToolAll[calc.at[t].at])
           read == [calc.at[t].read EXCEPT !.by_tool[i] =
                       counters_snapshot(telemetry.by_tool[i])]
       IN calc' = IF calc.at[t].at < Len(CacheableToolAll)
                  THEN [calc EXCEPT !.at[t].read = read,
                                    !.at[t].at = @ + 1]
                  ELSE [calc EXCEPT !.at[t].read = CacheTelemetryDefault,
                                    !.at[t].at = 0,
                                    !.at[t].pc = "ready",
                                    !.at[t].snap = snapshot(read),
                                    !.at[t].snaps = @ + 1]
    /\ UNCHANGED telemetry

TelemetryIdle ==
    UNCHANGED <<pc, max_bytes, index, files, index_file, tmp_file, now, runs,
                faults, load, last, threadVars, enabled, mgr, conf, keyed,
                grepped, semVars>>

NextTelemetry ==
    \/ (\E t \in Threads, field \in CounterFields, tool \in CacheableTool :
          RecordOverall(t, field, tool)) /\ TelemetryIdle
    \/ (\E t \in Threads : RecordByTool(t)) /\ TelemetryIdle
    \/ (\E t \in Threads : SnapshotOverall(t)) /\ TelemetryIdle
    \/ (\E t \in Threads : SnapshotByTool(t)) /\ TelemetryIdle

SpecTelemetry == InitTelemetry /\ [][NextTelemetry]_vars

\* ---- SemanticIndex::search
InitSearch ==
    /\ InitStore({ManagerLoad})
    /\ conf = NoConf /\ keyed = NoKeyed /\ grepped = NoKeyed /\ calc = NoKeyed
    /\ tree = SearchTree
    /\ db \in BuiltStores \cup {NoDb}
    /\ embedder = NoRequest /\ found = NoSearch
    /\ \E is_on \in BOOLEAN :
          build = [NoBuild EXCEPT !.config = SemanticIndexConfig(is_on, MaxLines)]

SearchFailed(query, top_k, why) ==
    [NoSearch EXCEPT !.pc = "done", !.query = query, !.top_k = top_k,
                     !.result = "err", !.error = why]

\* SemanticIndex::search, whole
Search ==
    /\ found.pc = "none"
    /\ UNCHANGED <<tree, db, build>>
    /\ \E query \in Queries, top_k \in 0..MaxTopK, response \in Responses,
          listing \in Orders(db.chunks) :
          IF ~build.config.enabled
          THEN /\ found' = SearchFailed(query, top_k, "disabled")
               /\ UNCHANGED embedder
          ELSE IF is_blank(query)
          THEN /\ found' = [NoSearch EXCEPT !.pc = "done", !.query = query,
                                            !.top_k = top_k, !.result = "ok"]
               /\ UNCHANGED embedder
          ELSE IF ~open(db, "OpenExisting").ok
          THEN /\ found' = SearchFailed(query, top_k, "open")
               /\ UNCHANGED embedder
          ELSE /\ embedder' = [embedder EXCEPT !.requests = @ + 1]
               /\ IF ~response.ok
                  THEN found' = SearchFailed(query, top_k, "embed")
                  ELSE IF response.vectors = <<>>
                  THEN found' = SearchFailed(query, top_k,
                                             "missing embedding result")
                  ELSE LET embedding == Head(response.vectors)
                           candidates == list_embeddings(listing)
                           scored == sort_by(Scored(embedding,
                                                    candidates.records))
                       IN IF ~candidates.ok
                          THEN found' = [SearchFailed(query, top_k, "decode")
                                           EXCEPT !.got = Len(response.vectors)]
                          ELSE found' =
                                 [pc |-> "done", query |-> query,
                                  top_k |-> top_k, result |-> "ok",
                                  error |-> "none",
                                  got |-> Len(response.vectors),
                                  embedding |-> embedding,
                                  listing |-> listing, scored |-> scored,
                                  hits |-> truncate(scored, top_k)]

NextSearch == Search /\ CacheIdle

SpecSearch == InitSearch /\ [][NextSearch]_vars

Next ==
    \/ (\E mb \in load.budgets, r \in BOOLEAN : New(mb, r))
          /\ UNCHANGED outside
    \/ (\E k \in load.keys, v \in load.values, d \in load.ttls : Put(k, v, d))
          /\ UNCHANGED outside
    \/ (\E k \in load.keys : Get(k)) /\ UNCHANGED outside
    \/ (\E k \in load.keys : Remove(k)) /\ UNCHANGED outside
    \/ Clear /\ UNCHANGED outside
    \/ Crash /\ UNCHANGED outside
    \/ KilledInCall /\ UNCHANGED outside
    \/ Tick /\ UNCHANGED outside

Spec == Init /\ [][Next]_vars

StepLoad ==
    [keys |-> {"a"}, values |-> {<<1>>, <<1, 2>>},
     ttls |-> {[secs |-> MaxTtlSecs, nanos |-> 0]},
     budgets |-> {MaxBudget}, runs |-> MaxRuns, faults |-> MaxFaults]

InitSteps == InitWith({StepLoad})

NextSteps ==
    \/ (\E mb \in load.budgets, r \in BOOLEAN : New(mb, r))
          /\ UNCHANGED outside
    \/ (\E k \in load.keys, v \in load.values, d \in load.ttls :
          PutStart(k, v, d)) /\ UNCHANGED outside
    \/ (\E k \in load.keys : GetStart(k)) /\ UNCHANGED outside
    \/ (\E k \in load.keys : RemoveStart(k)) /\ UNCHANGED outside
    \/ ClearStart /\ UNCHANGED outside
    \/ PersistWrite /\ UNCHANGED outside
    \/ PersistRename /\ UNCHANGED outside
    \/ Crash /\ UNCHANGED outside
    \/ Tick /\ UNCHANGED outside

SpecSteps == InitSteps /\ [][NextSteps]_vars

\* Payload files may also be deleted from outside the store.
ExtLoads ==
    {[keys |-> {"a"}, values |-> {<<1>>, <<1, 2>>},
      ttls |-> {[secs |-> n, nanos |-> 0] : n \in 0..MaxTtlSecs},
      budgets |-> {MaxBudget}, runs |-> MaxRuns, faults |-> 0],
     [keys |-> {"a"}, values |-> Values, ttls |-> Durations,
      budgets |-> Budgets, runs |-> 1, faults |-> MaxFaults],
     [keys |-> {"a", "b"}, values |-> {<<1>>, <<1, 2>>},
      ttls |-> {[secs |-> n, nanos |-> 0] : n \in 0..MaxTtlSecs},
      budgets |-> {MaxBudget}, runs |-> 1, faults |-> 0]}

InitExt == InitWith(ExtLoads)

NextExt ==
    \/ Next
    \/ (\E k \in load.keys : ExternalDelete(k)) /\ UNCHANGED outside

SpecExt == InitExt /\ [][NextExt]_vars

\* ------------------------------------------------------------ threads
\* Several threads call one store (SpecThreads).  A call takes the lock on
\* its first line (put leaves before that when max_bytes is 0), changes the
\* index and the payload files in steps, persists the index and drops the
\* lock when it returns.  The clock is read once in each call.
ThreadLoad ==
    [keys |-> {"a", "b"}, values |-> {<<1>>, <<1, 2>>},
     ttls |-> {[secs |-> MaxTtlSecs, nanos |-> 0]},
     budgets |-> {MaxBudget - 1}, runs |-> 1, faults |-> 0]

InitThreads == InitWith({ThreadLoad})

try_lock_unguarded(t) == TRUE

\* self.inner.lock(): granted when no thread holds the mutex
try_lock(t) == lock = "free"

\* the calls of the CacheStore trait on the state as it is: their results
\* and the state they leave
sequential(op, key, value, ttl) ==
    CASE op = "put" -> put(key, value, ttl)
      [] op = "get" -> get(key)
      [] op = "remove" -> remove(key)
      [] op = "clear" -> clear_all
      [] op = "stats" ->
            {Outcome(index, files, now, "stats",
                     <<stats.entries, stats.total_bytes>>, ZeroTtl, 0, {},
                     FALSE, FALSE)}

\* a thread calls the store and is granted the lock
Lock(t, op, key, value, ttl) ==
    /\ pc = "idle"
    /\ threads[t].pc = "ready"
    /\ try_lock(t)
    /\ lock' = t
    /\ held' = sequential(op, key, value, ttl)
    /\ threads' = [threads EXCEPT ![t] =
                      [Ready EXCEPT !.pc = "locked", !.op = op, !.key = key,
                                    !.val = value, !.ttl = ttl]]
    /\ UNCHANGED <<pc, max_bytes, index, files, index_file, tmp_file, now,
                   runs, faults, load, last>>

\* put up to the end of its eviction loop
PutEvict(t) ==
    LET c == threads[t]
        removed == remove_entry(index, files, c.key)
    IN /\ c.pc = "locked" /\ c.op = "put"
       /\ IF put_refused(Len(c.val))
          THEN /\ threads' = [threads EXCEPT ![t].pc = "unlocking",
                                             ![t].out = "too_large",
                                             ![t].res = c.val]
               /\ UNCHANGED <<index, files>>
          ELSE \E run \in evict_loop(removed.index, removed.files,
                                     Len(c.val), 0, {}) :
                  /\ index' = run.index
                  /\ files' = run.files
                  /\ threads' = [threads EXCEPT ![t].pc = "evicted",
                                                ![t].evicted = run.evicted]
       /\ UNCHANGED <<pc, max_bytes, index_file, tmp_file, now, runs, faults,
                      load, last, lock, held>>

\* put: the payload file is written and the entry inserted
PutInsert(t) ==
    LET c == threads[t]
    IN /\ c.pc = "evicted"
       /\ files' = [files EXCEPT ![c.key] = File(c.val)]
       /\ index' = put_insert(index, c.key, Len(c.val), c.ttl, now, now)
       /\ threads' = [threads EXCEPT ![t].pc = "persist", ![t].out = "stored",
                                     ![t].res = c.val]
       /\ UNCHANGED <<pc, max_bytes, index_file, tmp_file, now, runs, faults,
                      load, last, lock, held>>

\* get, remove, clear up to persist_index or the return before it; stats
Body(t) ==
    LET c == threads[t]
    IN /\ c.pc = "locked" /\ c.op # "put"
       /\ \E o \in sequential(c.op, c.key, c.val, c.ttl) :
             /\ ~o.failed
             /\ o.now = now
             /\ index' = o.index
             /\ files' = o.files
             /\ threads' = [threads EXCEPT
                               ![t].pc = IF o.persist THEN "persist"
                                         ELSE "unlocking",
                               ![t].out = o.out, ![t].res = o.val]
       /\ UNCHANGED <<pc, max_bytes, index_file, tmp_file, now, runs, faults,
                      load, last, lock, held>>

Persist(t) ==
    /\ threads[t].pc = "persist"
    /\ \E p \in persist_index(index) :
          /\ p.ok
          /\ index_file' = p.index_file
          /\ tmp_file' = p.tmp_file
    /\ threads' = [threads EXCEPT ![t].pc = "unlocking"]
    /\ UNCHANGED <<pc, max_bytes, index, files, now, runs, faults, load, last,
                   lock, held>>

\* the call returns and its guard is dropped
Unlock(t) ==
    /\ threads[t].pc = "unlocking"
    /\ lock' = "free"
    /\ held' = {}
    /\ threads' = [threads EXCEPT ![t] = Ready]
    /\ UNCHANGED <<pc, max_bytes, index, files, index_file, tmp_file, now,
                   runs, faults, load, last>>

\* time passes between calls
TickFree == lock = "free" /\ Tick /\ UNCHANGED threadVars

NextThreads ==
    \/ (\E mb \in load.budgets : New(mb, TRUE))
          /\ UNCHANGED <<threadVars, mgrVars, pureVars, semVars>>
    \/ (\E t \in Threads, k \in load.keys, v \in load.values,
           d \in load.ttls : Lock(t, "put", k, v, d)) /\ UNCHANGED <<mgrVars, pureVars, semVars>>
    \/ (\E t \in Threads, k \in load.keys, op \in {"get", "remove"} :
           Lock(t, op, k, <<>>, ZeroTtl)) /\ UNCHANGED <<mgrVars, pureVars, semVars>>
    \/ (\E t \in Threads, op \in {"clear", "stats"} :
           Lock(t, op, "-", <<>>, ZeroTtl)) /\ UNCHANGED <<mgrVars, pureVars, semVars>>
    \/ (\E t \in Threads : PutEvict(t)) /\ UNCHANGED <<mgrVars, pureVars, semVars>>
    \/ (\E t \in Threads : PutInsert(t)) /\ UNCHANGED <<mgrVars, pureVars, semVars>>
    \/ (\E t \in Threads : Body(t)) /\ UNCHANGED <<mgrVars, pureVars, semVars>>
    \/ (\E t \in Threads : Persist(t)) /\ UNCHANGED <<mgrVars, pureVars, semVars>>
    \/ (\E t \in Threads : Unlock(t)) /\ UNCHANGED <<mgrVars, pureVars, semVars>>
    \/ TickFree /\ UNCHANGED <<mgrVars, pureVars, semVars>>

SpecThreads == InitThreads /\ [][NextThreads]_vars

\* ------------------------------------------------------------ properties
\* What a call is said to return is said of the calls that do not fail on an
\* I/O error of the file system. last is the call that ended before the
\* step, last' the call that ends in it.

C2_TotalIsSum ==
    pc = "idle" => index.total_bytes = SumSizes(index.entries, KeysOf(index))

\* C3: for a store with max_bytes > 0, total_bytes <= max_bytes right after
\* construction and after every operation that returns.
C3_WithinBudget ==
    (pc = "idle" /\ max_bytes > 0) => index.total_bytes <= max_bytes

\* C4: a put that gets as far as evicting removes entries in ascending
\* last_access_epoch (no entry it removes was accessed later than one it
\* keeps), stops as soon as total_bytes + incoming size <= max_bytes or no
\* other entry remains (the budget was still exceeded before the last
\* removal), and returns as evicted the number of entries it removed, the
\* replaced entry of its own key not counted.
C4_EvictsOldestFirst ==
    [][(Returned("put") /\ last'.out \in {"stored", "failed"})
        => LET k == last'.key
               size == Len(last'.val)
               before == KeysOf(index) \ {k}
               gone == {j \in before : ~index'.entries[j].present}
               kept == before \ gone
               room == IF last'.out = "stored"
                       THEN index'.total_bytes - size
                       ELSE index'.total_bytes
           IN /\ \A e \in gone, j \in kept :
                    index.entries[e].last_access_epoch
                        <= index.entries[j].last_access_epoch
              /\ room + size <= max_bytes \/ kept = {}
              /\ gone # {} =>
                    \E e \in gone :
                        /\ \A g \in gone :
                              index.entries[g].last_access_epoch
                                  <= index.entries[e].last_access_epoch
                        /\ room + index.entries[e].size_bytes + size > max_bytes
              /\ last'.evicted = Cardinality(gone)
              /\ \A j \in kept : index'.entries[j] = index.entries[j]]_vars

\* a put has evicted an entry and kept another
C4_Witness ==
    /\ last.op = "put" /\ last.status = "ok" /\ last.out = "stored"
    /\ last.evicted >= 1
    /\ KeysOf(index) \ {last.key} # {}

C6_GetNeverRenews ==
    [][/\ (Returned("get") /\ last'.out = "hit")
            => /\ files' = files
               /\ index'.total_bytes = index.total_bytes
               /\ \A j \in Keys :
                     index'.entries[j] =
                        [index.entries[j] EXCEPT !.last_access_epoch =
                            index'.entries[j].last_access_epoch]
               /\ \A j \in Keys \ {last'.key} :
                     index'.entries[j] = index.entries[j]
       /\ (Returned("put") /\ last'.out = "stored")
            => /\ index'.entries[last'.key].inserted_epoch = last'.t
               /\ index'.entries[last'.key].ttl_secs = as_secs(last'.ttl)
       /\ \A j \in Keys :
            (/\ index.entries[j].present /\ index'.entries[j].present
             /\ \/ index'.entries[j].inserted_epoch
                      # index.entries[j].inserted_epoch
                \/ index'.entries[j].ttl_secs # index.entries[j].ttl_secs)
            => (last'.op = "put" /\ last'.key = j)
       /\ (/\ Returned("get")
           /\ index.entries[last'.key].present
           /\ last'.t > index.entries[last'.key].inserted_epoch
                            + index.entries[last'.key].ttl_secs)
            => (last'.out = "expired" /\ ~index'.entries[last'.key].present)
      ]_vars

\* a get has returned an entry in the last second of its life
C6_Witness ==
    /\ last.op = "get" /\ last.out = "hit" /\ last.status = "ok"
    /\ index.entries[last.key].ttl_secs >= 1
    /\ last.t = index.entries[last.key].inserted_epoch
                    + index.entries[last.key].ttl_secs

\* C7: after clear() has returned, stats() reports zero entries and zero
\* total_bytes and get of every key returns no entry.
C7_ClearEmpties ==
    /\ last.op = "clear"
        => /\ stats = [entries |-> 0, total_bytes |-> 0]
           /\ \A k \in Keys : \A o \in get(k) : o.out = "absent"
    /\ (last.op = "get" /\ last.after \in {"clear", "cleared"})
        => (last.out = "absent" /\ last.status = "ok")

\* a get of a key that the clear before it removed has returned no entry
C7_Witness ==
    last.op = "get" /\ last.after = "cleared" /\ last.out = "absent"

\* C8: a put on a store whose max_bytes is 0, or of a value longer than
\* max_bytes, returns success with evicted = 0 and leaves the index entries,
\* total_bytes and every payload file as they were.
C8_RefusedPutIsNoOp ==
    [][(Returned("put") /\ (max_bytes = 0 \/ Len(last'.val) > max_bytes))
        => /\ last'.status = "ok"
           /\ last'.evicted = 0
           /\ index' = index
           /\ files' = files]_vars

\* a value longer than max_bytes has been put under a key that has an entry
C8_Witness ==
    /\ last.op = "put" /\ last.out = "too_large" /\ last.status = "ok"
    /\ index.entries[last.key].present
    /\ files[last.key].exists

\* C9: whenever a store exists, a key is in the index exactly if it has a
\* payload file.
C9_OneToOne ==
    pc = "idle" => \A k \in Keys : index.entries[k].present <=> files[k].exists

\* C10: at every step of persist_index, and after a crash at any of them, the
\* file at the canonical index path is absent or a complete serialization of
\* an index, and after a call that has persisted the index it is the
\* serialization of the store's index.
C10_IndexFileWhole ==
    /\ index_file.kind \in {"absent", "json"}
    /\ (/\ pc = "idle" /\ last.status = "ok"
        /\ last.out \in {"stored", "hit", "expired", "missing", "done"})
        => index_file = Serialize(index)

\* a crash inside persist_index has left a torn temporary file beside a
\* complete index file
C10_Witness ==
    pc = "down" /\ tmp_file.kind = "partial" /\ index_file.kind = "json"

\* C11: with several threads calling one store, a call is granted the lock
\* only while no other call is between its first change of the index and
\* its return (so none observes entries evicted or removed by a call that
\* has not yet inserted its entry and persisted the index), and when a call
\* returns, its result and the index and payload files it leaves are those
\* of the same call made alone on the state in which it was granted the
\* lock: the calls take effect one after another, in the order of the lock.
C11_Linearizable ==
    [][\A t \in Threads :
          /\ (threads[t].pc = "ready" /\ threads'[t].pc # "ready")
                => \A u \in Threads \ {t} : threads[u].pc = "ready"
          /\ (threads[t].pc = "unlocking" /\ threads'[t].pc = "ready")
                => \E o \in held :
                      /\ o.index = index
                      /\ o.files = files
                      /\ o.out = threads[t].out
                      /\ o.val = threads[t].res
                      /\ o.evicted = threads[t].evicted]_vars

\* a put has evicted an entry and not yet inserted its own, while the other
\* thread is outside the store
C11_Witness ==
    \E t \in Threads :
        /\ threads[t].pc = "evicted" /\ threads[t].evicted >= 1
        /\ lock = t
        /\ \A u \in Threads \ {t} : threads[u].pc = "ready"

C13_NeverFails ==
    [][(mgr'.n = mgr.n + 1 /\ mgr'.op \in {"get", "put"})
        => /\ mgr'.op = "get" => mgr'.res \in {"some", "none"}
           /\ mgr'.op = "put" => mgr'.res = "unit"
           /\ mgr'.store = "err"
                 => /\ mgr'.res \in {"none", "unit"}
                    /\ telemetry' = telemetry]_vars

\* a get of the manager whose store found the value and then failed to
\* write the index
C13_Witness ==
    /\ mgr.op = "get" /\ mgr.store = "err" /\ mgr.res = "none"
    /\ last.op = "get" /\ last.out = "hit"

\* C14: while the manager is disabled a get hands back nothing and a put
\* returns, neither calls the store, and the index, its total_bytes, the
\* payload files and the index file are as they were.
C14_DisabledIsInert ==
    [][(~enabled /\ mgr'.n = mgr.n + 1 /\ mgr'.op \in {"get", "put"})
        => /\ mgr'.op = "get" => mgr'.res = "none"
           /\ mgr'.op = "put" => mgr'.res = "unit"
           /\ mgr'.store = "skipped"
           /\ UNCHANGED <<index, files, index_file, tmp_file, faults>>]_vars

\* a disabled manager has been asked for a key the store holds, unexpired
\* and with its payload file
C14_Witness ==
    /\ ~enabled /\ mgr.op = "get" /\ mgr.res = "none"
    /\ mgr.key \in KeysOf(index)
    /\ ~is_expired_at(index.entries[mgr.key], now)
    /\ files[mgr.key].exists

\* C15 (as stated): hits + misses is the number of gets made while enabled,
\* stores the number of puts made while enabled, evictions the sum of the
\* evicted counts the store handed back.
C15_OnePerCall ==
    /\ telemetry.overall.hits + telemetry.overall.misses = mgr.gets
    /\ telemetry.overall.stores = mgr.puts
    /\ telemetry.overall.evictions = mgr.evicted

\* C16: in every snapshot, in the aggregate and in each category, the hit
\* rate is absent exactly when hits + misses = 0 and is otherwise the
\* quotient hits / (hits + misses).
C16_HitRate ==
    LET s == snapshot(telemetry)
        HitRateOf(c) ==
            /\ ~c.hit_rate.some <=> c.hits + c.misses = 0
            /\ c.hit_rate.some
                  => c.hit_rate.num * (c.hits + c.misses)
                        = c.hits * c.hit_rate.den
    IN /\ HitRateOf(s)
       /\ \A i \in DOMAIN s.by_tool : HitRateOf(s.by_tool[i])

\* a snapshot with a category that has a hit and a miss and a category with
\* no lookup
C16_Witness ==
    LET s == snapshot(telemetry)
    IN /\ s.hit_rate.some
       /\ \E i, j \in DOMAIN s.by_tool :
             /\ s.by_tool[i].hits >= 1 /\ s.by_tool[i].misses >= 1
             /\ ~s.by_tool[j].hit_rate.some

\* C17 (as stated): ttl_for hands back the override of the category when
\* the configuration sets one, and the configured default TTL for every
\* category whose override it leaves unset.
C17_AsStated ==
    conf.pc = "ttl"
        => LET o == for_tool(conf.toml.tool_ttl_sec, conf.tool)
           IN conf.ttl = IF o.some THEN from_secs(o.v)
                         ELSE conf.config.default_ttl

\* C17 (amended): ttl_for hands back the override of the category when the
\* configuration sets one; with the override unset it hands back 300 s for
\* read-file, 10 s for grep-files, and the configured default TTL (60 s when
\* that is unset too) for list-dir.
C17_TtlFor ==
    conf.pc = "ttl"
        => LET o == for_tool(conf.toml.tool_ttl_sec, conf.tool)
           IN conf.ttl =
                 IF o.some THEN from_secs(o.v)
                 ELSE CASE conf.tool = "ReadFile" ->
                             from_secs(DEFAULT_CACHE_READ_FILE_TTL_SECS)
                        [] conf.tool = "GrepFiles" ->
                             from_secs(DEFAULT_CACHE_GREP_FILES_TTL_SECS)
                        [] conf.tool = "ListDir" ->
                             from_secs(unwrap_or(conf.toml.default_ttl_sec,
                                          DEFAULT_CACHE_DEFAULT_TTL_SECS))

\* ttl_for has been asked for read-file under a configuration that sets a
\* default TTL and no read-file override
C17_Witness ==
    /\ conf.pc = "ttl" /\ conf.tool = "ReadFile"
    /\ ~conf.toml.tool_ttl_sec.read_file.some
    /\ conf.toml.default_ttl_sec.some
    /\ conf.ttl # conf.config.default_ttl

\* C18: two calls of build_tool_cache_key whose arguments are the same JSON
\* value, their objects' keys in whatever order at every depth, get the same
\* key; two calls whose arguments differ in the order of the elements of an
\* array, at any depth, get different keys.
C18_KeyOrderOnly ==
    (keyed.pc = "built" /\ keyed.a.stamp = keyed.b.stamp)
        => /\ SameJson(keyed.a.args, keyed.b.args) => keyed.key_a = keyed.key_b
           /\ ~SameJson(keyed.a.args, keyed.b.args) => keyed.key_a # keyed.key_b

\* keys were built for arguments that differ in the order of the keys of an
\* object inside an object and in nothing else
C18_Witness ==
    /\ keyed.pc = "built" /\ keyed.key_a = keyed.key_b
    /\ keyed.a.args.kind = "obj"
    /\ \E i \in 1..Len(keyed.a.args.items) :
          /\ keyed.a.args.items[i].kind = "obj"
          /\ keyed.b.args.items[i].k = keyed.a.args.items[i].k
          /\ keyed.b.args.items[i] # keyed.a.args.items[i]

\* C19: with the tool name, arguments, workspace and target the same, two
\* stamps that differ in mtime_nanos or in size_bytes get different keys
\* (no two inputs of the hash have the same digest).
C19_StampInKey ==
    (keyed.pc = "built" /\ keyed.a.args = keyed.b.args
     /\ keyed.a.stamp # keyed.b.stamp)
        => keyed.key_a # keyed.key_b

\* keys were built for two stamps whose digits, written one after the other,
\* are the same
C19_Witness ==
    /\ keyed.pc = "built"
    /\ keyed.a.args = keyed.b.args
    /\ keyed.a.stamp # keyed.b.stamp
    /\ Decimal(keyed.a.stamp.mtime_nanos) \o Decimal(keyed.a.stamp.size_bytes)
         = Decimal(keyed.b.stamp.mtime_nanos) \o Decimal(keyed.b.stamp.size_bytes)

\* C20: with the workspace, search path, pattern, include and limit the
\* same, two repository states that differ, in the text of HEAD, in the
\* mtime of the index, or in one being detected and the other not, get
\* different keys.
C20_RepoStateInKey ==
    (grepped.pc = "built" /\ grepped.a.repo_state # grepped.b.repo_state)
        => grepped.key_a # grepped.key_b

\* keys were built for two detected repository states with the same index
\* mtime and another text of HEAD
C20_Witness ==
    /\ grepped.pc = "built"
    /\ grepped.a.repo_state.some /\ grepped.b.repo_state.some
    /\ grepped.a.repo_state.v.head_ref # grepped.b.repo_state.v.head_ref
    /\ grepped.a.repo_state.v.index_mtime_nanos
         = grepped.b.repo_state.v.index_mtime_nanos
    /\ grepped.key_a # grepped.key_b

\* C21: a grep_files result is stored under the configured grep TTL when a
\* repository state was detected, and under the smaller of the configured
\* grep TTL and 10 seconds when none was; without a repository state it is
\* never stored for longer than 10 seconds.
C21_GrepTtl ==
    grepped.pc = "stored"
        => /\ grepped.repo_state.some => grepped.ttl = grepped.configured
           /\ ~grepped.repo_state.some
                 => /\ grepped.ttl =
                          IF grepped.configured.secs < 10
                          THEN grepped.configured ELSE from_secs(10)
                    /\ grepped.ttl_secs <= 10
           /\ grepped.ttl_secs = grepped.ttl.secs

\* a result was stored with no repository state detected under a configured
\* TTL above 10 seconds
C21_Witness ==
    /\ grepped.pc = "stored"
    /\ ~grepped.repo_state.some
    /\ grepped.configured.secs > 10
    /\ grepped.ttl = from_secs(10)
\* C22: when a build has succeeded, every file row of the store is the row
\* this build wrote for a file of the workspace it walked, with the hash and
\* size of what it read, and every chunk row carries this build's created_at
\* and belongs to such a file; no row of the store the build found remains,
\* also not for a file deleted since.
C22_BuildReplaces ==
    (build.pc = "idle" /\ build.result = "ok")
        => /\ \A r \in db.files :
                /\ tree[r.path].kind = "text"
                /\ r = FileEntry(r.path, Sha256Hex(tree[r.path].lines),
                                 Len(JoinLines(tree[r.path].lines)))
           /\ \A r \in db.chunks :
                /\ r.updated_at = build.created_at
                /\ \E f \in db.files : f.path = r.file_path

C22_Witness ==
    /\ build.pc = "idle" /\ build.result = "ok"
    /\ build.created_at = 2
    /\ db.chunks # {}
    /\ \E q \in build.replaced : tree[q].kind = "absent"

\* C23: when the provider has answered a file's request with a number of
\* embeddings other than the number of the file's chunks, the build has
\* returned an error, the store holds no chunk row of that file and no row of
\* a file that comes after it, and the store holds no meta row.
C23_CountMismatch ==
    build.counts.embeddings # build.counts.chunks
        => /\ build.pc = "idle"
           /\ build.result = "err"
           /\ build.error = "embedding response mismatch"
           /\ \A r \in db.chunks : r.file_path # Head(build.todo)
           /\ \A i \in 2..Len(build.todo) :
                /\ \A r \in db.files : r.path # build.todo[i]
                /\ \A r \in db.chunks : r.file_path # build.todo[i]
           /\ db.meta = <<>>

C23_Witness ==
    /\ build.counts.embeddings > build.counts.chunks
    /\ build.result = "err"
    /\ Len(build.todo) = 1
    /\ db.chunks # {}
    /\ \E r \in db.files : r.path = Head(build.todo)

\* C24: in every state, all chunk rows of the store decode to embeddings of
\* one length, which is the dimension the running build has fixed; a build
\* that has met an embedding of another length has stopped with the store as
\* it was; and the meta row of a build that succeeded has that length as dim,
\* or 0 when the build stored no chunk.
C24_OneDimension ==
    LET dims == {Len(decode_embedding(r.embedding).values) : r \in db.chunks}
    IN /\ Cardinality(dims) <= 1
       /\ \A r \in db.chunks : decode_embedding(r.embedding).ok
       /\ (build.pc # "idle" /\ build.embedding_dim.some)
             => dims \subseteq {build.embedding_dim.v}
       /\ (build.pc = "idle" /\ build.result = "ok")
             => /\ Len(db.meta) = 1
                /\ dims \subseteq {db.meta[1].dim}
                /\ db.chunks = {} => db.meta[1].dim = 0
                /\ build.stats.embedding_dim = SomeOf(db.meta[1].dim)

C24_Witness ==
    /\ build.pc = "idle" /\ build.result = "ok"
    /\ db.meta[1].dim = 2
    /\ Cardinality({r.file_path : r \in db.chunks}) = 2
    /\ Cardinality(db.chunks) = 3

\* C25: with indexing enabled, a search whose query is empty or only
\* whitespace has succeeded with no hit and the embedding client has sent no
\* request, with an index and without one.
C25_BlankQuery ==
    (found.pc = "done" /\ build.config.enabled /\ TrimIsEmpty(found.query))
        => /\ found.result = "ok"
           /\ found.hits = <<>>
           /\ embedder.requests = 0

C25_Witness ==
    /\ found.pc = "done" /\ build.config.enabled
    /\ found.query = <<" ", "\t">>
    /\ ~db.exists
    /\ found.result = "ok" /\ found.hits = <<>> /\ embedder.requests = 0

\* C26: the hits of a search that ranked are the first min(top_k, n) of the n
\* candidates that got a score; each hit precedes the hits after it by the
\* greater score, then the lesser file path, then the lesser start line; the
\* hits are the same for every order in which the store may list its rows;
\* and every hit scores at least as high as every scored candidate that is
\* not a hit.
C26_Ranked ==
    (found.pc = "done" /\ found.result = "ok" /\ ~TrimIsEmpty(found.query))
        => LET hits == found.hits
               records == list_embeddings(found.listing).records
               all == Scored(found.embedding, records)
               n == Len(all)
               kept == {hits[i].chunk_id : i \in 1..Len(hits)}
               Above(a, b) == partial_cmp(a.score, b.score) = "Greater"
               Level(a, b) == partial_cmp(a.score, b.score) = "Equal"
           IN /\ Len(hits) = (IF found.top_k < n THEN found.top_k ELSE n)
              /\ \A i \in 1..Len(hits) : \E k \in 1..n : all[k] = hits[i]
              /\ \A i, j \in 1..Len(hits) :
                   i < j => \/ Above(hits[i], hits[j])
                            \/ /\ Level(hits[i], hits[j])
                               /\ \/ StrLess(hits[i].file_path, hits[j].file_path)
                                  \/ /\ hits[i].file_path = hits[j].file_path
                                     /\ hits[i].start_line < hits[j].start_line
              /\ \A listing \in Orders(db.chunks) :
                   truncate(sort_by(Scored(found.embedding,
                                           list_embeddings(listing).records)),
                            found.top_k) = hits
              /\ \A i \in 1..Len(hits), k \in 1..n :
                   all[k].chunk_id \notin kept
                       => Above(hits[i], all[k]) \/ Level(hits[i], all[k])

\* C27 as stated: a search that got the query's embedding and found the
\* index does not fail; a chunk whose embedding is empty or of another
\* length than the query's is no candidate with a score; and every chunk
\* whose embedding has the query's length, not zero, is one.
C27_AsStated ==
    (found.pc = "done" /\ found.got >= 1)
        => /\ found.result = "ok"
           /\ \A r \in db.chunks :
                LET ranked == \E i \in 1..Len(found.scored) :
                                 found.scored[i].chunk_id = r.chunk_id
                    other == decode_embedding(r.embedding).values
                IN ranked <=> (Len(other) = Len(found.embedding) /\ other # <<>>)

\* C27: a search that got the query's embedding and found the index does
\* not fail; a chunk whose embedding is empty or of another length than the
\* query's is no candidate with a score; and a chunk whose embedding has the
\* query's length, not zero, is one unless all the components of the chunk's
\* embedding are zero or all those of the query's are.
C27_Dropped ==
    (found.pc = "done" /\ found.got >= 1)
        => /\ found.result = "ok"
           /\ \A r \in db.chunks :
                LET ranked == \E i \in 1..Len(found.scored) :
                                 found.scored[i].chunk_id = r.chunk_id
                    other == decode_embedding(r.embedding).values
                    AllZero(v) == \A i \in 1..Len(v) : v[i] = F32Zero
                IN ranked <=> /\ Len(other) = Len(found.embedding)
                              /\ other # <<>>
                              /\ ~AllZero(other)
                              /\ ~AllZero(found.embedding)

C27_Witness ==
    /\ found.pc = "done" /\ found.result = "ok"
    /\ Len(found.embedding) = 1
    /\ Cardinality(db.chunks) = 3
    /\ \A r \in db.chunks : Len(decode_embedding(r.embedding).values) = 2
    /\ found.top_k = 3 /\ found.hits = <<>>

\* C28: a search that has sent its one input to the provider and has not
\* got exactly one vector back has returned an error and has ranked nothing.
C28_OneVector ==
    (found.pc = "done" /\ embedder.requests = 1 /\ found.got # 1)
        => /\ found.result = "err"
           /\ found.scored = <<>>
           /\ found.hits = <<>>

\* C29: for max_lines of at least 1, chunk_lines gives, in order, one chunk
\* for each window of max_lines consecutive lines (the last window may be
\* shorter) that is not all whitespace: it starts at line 1 + max_lines * i
\* for window i counted from 0, ends at its start plus the window's length
\* less 1, and its text is the window's lines joined by newlines. The ranges
\* of the chunks are strictly increasing and disjoint, none is longer than
\* max_lines, and with the windows dropped they cover lines 1..len exactly.
C29_Windows ==
    (calc.pc = "chunked" /\ calc.max_lines >= 1)
        => LET lines == calc.lines
               m == calc.max_lines
               chunks == calc.chunks
               windows == {i \in 0..Len(lines) : m * i < Len(lines)}
               First(i) == 1 + m * i
               Final(i) == IF m * (i + 1) < Len(lines) THEN m * (i + 1)
                           ELSE Len(lines)
               Blank(i) == \A l \in First(i)..Final(i) :
                              \A c \in 1..Len(lines[l]) :
                                 lines[l][c] \in {" ", "\t"}
               kept == {i \in windows : ~Blank(i)}
               Range(c) == c.start_line..c.end_line
           IN /\ Len(chunks) = Cardinality(kept)
              /\ \A i \in kept : \E k \in 1..Len(chunks) :
                   /\ chunks[k].start_line = First(i)
                   /\ chunks[k].end_line
                        = chunks[k].start_line + (Final(i) - First(i) + 1) - 1
                   /\ chunks[k].text = JoinLines(SubSeq(lines, First(i), Final(i)))
              /\ \A k \in 1..Len(chunks) :
                   /\ chunks[k].start_line <= chunks[k].end_line
                   /\ chunks[k].end_line - chunks[k].start_line + 1 <= m
                   /\ k < Len(chunks)
                        => chunks[k].end_line < chunks[k + 1].start_line
              /\ UNION {Range(chunks[k]) : k \in 1..Len(chunks)}
                 \cup UNION {First(i)..Final(i) : i \in windows \ kept}
                   = 1..Len(lines)
              /\ \A k \in 1..Len(chunks), i \in windows \ kept :
                   Range(chunks[k]) \cap (First(i)..Final(i)) = {}

C29_Witness ==
    /\ calc.pc = "chunked"
    /\ calc.max_lines = 2
    /\ Len(calc.lines) = 5
    /\ calc.chunks = <<Chunk(1, 2, <<"x", "\n", "x">>), Chunk(5, 5, <<"x">>)>>

\* C30: the encoding of an embedding of n values has 4 * n bytes, the four
\* bytes of each value in turn with the least significant first, and decodes
\* to the same n values, bit for bit; and the decoding of a blob fails exactly
\* when the blob's length is not a multiple of 4, giving len / 4 values
\* otherwise.
C30_Codec ==
    /\ calc.pc = "encoded"
          => /\ Len(calc.bytes) = 4 * Len(calc.embedding)
             /\ \A i \in 1..Len(calc.embedding), b \in 1..4 :
                  calc.bytes[4 * (i - 1) + b] = calc.embedding[i][5 - b]
             /\ calc.decoded.ok
             /\ Len(calc.decoded.values) = Len(calc.embedding)
             /\ \A i \in 1..Len(calc.embedding) :
                  calc.decoded.values[i] = calc.embedding[i]
    /\ calc.pc = "decoded"
          => /\ ~calc.decoded.ok <=> Len(calc.bytes) % 4 # 0
             /\ calc.decoded.ok
                  => Len(calc.decoded.values) * 4 = Len(calc.bytes)

C30_Witness ==
    /\ calc.pc = "encoded"
    /\ calc.embedding = <<F32One, F32Odd>>
    /\ calc.bytes = <<0, 0, 128, 63, 4, 3, 2, 1>>
    /\ calc.decoded = [ok |-> TRUE, values |-> <<F32One, F32Odd>>]

\* C31: stats() of a store that holds no meta row succeeds, reports the
\* numbers of file rows and chunk rows the store holds, and reports no
\* embedding model, no dimension and no creation time; of a store just
\* created the two numbers are 0.
C31_StatsWithoutMeta ==
    (calc.pc # "none" /\ db.exists /\ db.meta = <<>>)
        => /\ calc.ok
           /\ calc.stats.file_count = Cardinality(db.files)
           /\ calc.stats.chunk_count = Cardinality(db.chunks)
           /\ ~calc.stats.embedding_model.some
           /\ ~calc.stats.embedding_dim.some
           /\ ~calc.stats.created_at.some
           /\ (db.files = {} /\ db.chunks = {})
                 => (calc.stats.file_count = 0 /\ calc.stats.chunk_count = 0)

C31_Witness ==
    /\ calc.pc = "OpenExisting" /\ calc.ok
    /\ db.meta = <<>>
    /\ calc.stats = [file_count |-> 2, chunk_count |-> 2,
                     embedding_model |-> NoString, embedding_dim |-> NoneOf,
                     created_at |-> NoneOf]

RECURSIVE SnippetChars(_)
SnippetChars(snippet) ==
    IF snippet = <<>> THEN 0
    ELSE Len(Head(snippet).text) + SnippetChars(Tail(snippet))

RECURSIVE LineBytes(_, _, _)
LineBytes(lines, a, b) ==
    IF a > b THEN 0 ELSE StrLen(lines[a]) + LineBytes(lines, a + 1, b)

C34_IndexFileCurrent ==
    pc = "idle" => load_index(index_file, TRUE) = index
\* C37: after put(k, v) has returned successfully, a get(k) returns v or no
\* entry, never a value an earlier put stored under k; so also after a put
\* that was refused because v is longer than the byte budget.  Stated of the
\* get that follows the put directly.
C37_NoStaleValue ==
    [][(last.op = "put" /\ last.status = "ok" /\ Returned("get")
            /\ last'.key = last.key /\ last'.out = "hit")
        => last'.val = last.val]_vars
C38_FailedBuildKeeps ==
    [][(db.meta # <<>> /\ build'.result = "err") => db' = db]_vars
\* C39: in every snapshot a thread is handed, also one taken while another
\* thread records, each aggregate counter is the sum of that counter over the
\* three tools.
C39_SnapshotSums ==
    \A t \in Threads :
       calc.at[t].snaps > 0
       => \A field \in CounterFields :
             calc.at[t].snap[field]
               = calc.at[t].snap.by_tool[1][field]
                 + calc.at[t].snap.by_tool[2][field]
                 + calc.at[t].snap.by_tool[3][field]
\* C40: two requests that differ in tool name, canonical arguments,
\* workspace path, target path or stamp never get the same key (SHA-256
\* taken to be free of collisions).
C40_DistinctKeys ==
    (/\ keyed.pc = "built"
     /\ \/ keyed.a.tool_name # keyed.b.tool_name
        \/ canonical_json(keyed.a.args) # canonical_json(keyed.b.args)
        \/ keyed.a.workspace_root # keyed.b.workspace_root
        \/ keyed.a.target_path # keyed.b.target_path
        \/ keyed.a.stamp # keyed.b.stamp)
    => keyed.key_a # keyed.key_b
\* C36: with the cache enabled, a grep_files call whose key has an unexpired
\* entry with a decodable payload is answered with that payload and runs no
\* search; otherwise the search runs once, and after a search that succeeded
\* (exit code 0 or 1) its output is put under the key with the grep TTL (the
\* configured one, capped at 10 seconds when no repository state was
\* detected), while a search that timed out or failed puts nothing and leaves
\* the cache as it was.
C36_HandleCache ==
    [][/\ (/\ grepped'.n = grepped.n + 1
           /\ is_enabled(enabled)
           /\ faults' = faults
           /\ index.entries[grepped'.key].present
           /\ ~is_expired_at(index.entries[grepped'.key], now)
           /\ files[grepped'.key].exists
           /\ decode_cached_output(files[grepped'.key].bytes).some)
          => /\ grepped'.pc = "idle" /\ grepped'.lookup = "hit"
             /\ grepped'.runs = 0 /\ ~grepped'.put
             /\ grepped'.result = "ok"
             /\ SomeOf(grepped'.output)
                  = decode_cached_output(files[grepped'.key].bytes)
             /\ files' = files
       /\ (grepped'.n = grepped.n + 1 /\ grepped'.lookup = "hit")
          => /\ index.entries[grepped'.key].present
             /\ files[grepped'.key].exists
       /\ (grepped.pc = "search" /\ grepped'.pc = "idle")
          => /\ grepped'.runs = 1
             /\ LET run == grepped'.run
                    failed == \/ run.took > COMMAND_TIMEOUT
                              \/ ~run.launched
                              \/ run.code \notin {SomeOf(0), SomeOf(1)}
                    ttl == IF grepped.repo_state.some
                              \/ grepped.configured.secs < 10
                           THEN grepped.configured ELSE from_secs(10)
                IN IF failed \/ ~grepped.keyed
                   THEN /\ ~grepped'.put
                        /\ grepped'.result = IF failed THEN "err" ELSE "ok"
                        /\ index' = index /\ files' = files
                        /\ index_file' = index_file
                        /\ telemetry' = telemetry
                   ELSE /\ grepped'.put /\ grepped'.result = "ok"
                        /\ last'.op = "put" /\ last'.key = grepped.key
                        /\ grepped'.put_key = grepped.key
                        /\ grepped'.put_ttl = ttl
                        /\ decode_cached_output(grepped'.put_value)
                             = SomeOf(grepped'.output)
                        /\ (last'.out = "stored" /\ last'.status = "ok")
                           => /\ files'[grepped.key]
                                   = File(grepped'.put_value)
                              /\ index'.entries[grepped.key].ttl_secs
                                   = as_secs(ttl)]_vars

\* a call was answered from the cache with the no-match output that an
\* earlier call had stored
C36_Witness ==
    /\ grepped.pc = "idle" /\ grepped.n >= 2
    /\ grepped.lookup = "hit" /\ grepped.runs = 0
    /\ grepped.output = CachedGrepOutput(NoMatches, SomeOf(FALSE))
====
